---------------------------- MODULE Spec2Model ----------------------------
(***************************************************************************)
(* A model of the document-to-structured-text pipeline of                  *)
(* LLM-Agent-Extraction-PLGANPs: the ancillary section filter              *)
(* (_remove_references_from_paragraphs) and the structural extractor       *)
(* (extract_from_xml) of src/src/xml_parser.py, and the paragraph          *)
(* segmenter (split_text_into_paragraphs) of src/src/pdf_parser.py, and    *)
(* the model call (call_llm_for_extraction) of src/src/llm_interface.py.   *)
(*                                                                         *)
(* Text is modelled as a sequence of one-character strings, so that        *)
(* trimming, whitespace collapsing, case folding, regular-expression       *)
(* matching and line counting are computed character by character.         *)
(***************************************************************************)
EXTENDS Integers, Sequences, FiniteSets, TLC

VARIABLES
    \* one call of _remove_references_from_paragraphs
    paragraphs,             \* the argument
    idx,                    \* position of the for loop in paragraphs
    in_ancillary_section,   \* the flag of line 43
    processed_paragraphs,   \* the kept list of line 44
    final_cleaned_paragraphs, \* the returned list (meaningful when fpc = "done")
    fpc,                    \* "start" | "loop" | "done" | "idle"
    runs,                   \* the completed calls, oldest first: [input, output]
    \* one call of extract_from_xml
    doc,                    \* the file at xml_file_path
    fault,                  \* the step at which the environment raises, or "none"
    pc,                     \* the step extract_from_xml is about to run
    extracted_data,         \* the record being filled in
    tw_i,                   \* position of the loop over table_wraps
    result,                 \* the returned value (meaningful when pc = "returned")
    \* one call of split_text_into_paragraphs
    text,                   \* the argument
    lines,                  \* text split into lines (line 34)
    line_i,                 \* position of the for loop in lines, from 1
    current_paragraph_lines, \* the accumulator of line 37
    pdf_paragraphs,         \* the list `paragraphs` of line 36
    cleaned_paragraphs,     \* the returned list (meaningful when spc = "done")
    current_idx,            \* history: the positions of the accumulated lines
    paragraph_idx,          \* history: the line positions behind each paragraph
    spc,                    \* "start" | "loop" | "done" | "idle"
    \* several calls of extract_from_xml at once
    calls,                  \* per worker: its document, fault, position, result
    heap,                   \* the dicts the calls have built, by identity
    \* one call of call_llm_for_extraction
    api_key,                \* os.getenv("GOOGLE_API_KEY"): None or a string
    response,               \* what generate_content does: raise, or a response
    lpc,                    \* "init" | "generate" | "candidates" | "text" |
                            \* "parse" | "except" | "returned" | "raised" | "idle"
    exc,                    \* the exception at hand, "none" when there is none
    response_text,          \* the local of line 68
    json_string,            \* the local of lines 85 and 88
    llm_result              \* the returned value (meaningful when lpc = "returned")

fvars == <<paragraphs, idx, in_ancillary_section, processed_paragraphs,
           final_cleaned_paragraphs, fpc, runs>>
xvars == <<doc, fault, pc, extracted_data, tw_i, result>>
svars == <<text, lines, line_i, current_paragraph_lines, pdf_paragraphs,
           cleaned_paragraphs, current_idx, paragraph_idx, spc>>
pvars == <<calls, heap>>
lvars == <<api_key, response, lpc, exc, response_text, json_string, llm_result>>
vars == <<fvars, xvars, svars, pvars, lvars>>

---------------------------------------------------------------------------
(* Bounds of the model *)

\* the longest paragraph list handed to the filter
MaxParas == 3
\* filter calls in a row (the second one runs on the first one's output)
MaxRuns == 2
\* the most section elements in a document body
MaxSecs == 2
\* the most body rows of a table
MaxRows == 2
\* the most table-wrap elements in a document
MaxTables == 2
\* the most lines of a text handed to the segmenter
MaxLines == 3
\* the workers that extract at the same time
MaxWorkers == 2

---------------------------------------------------------------------------
(* Characters and Python's str / re primitives *)

UpperChars == <<"A","B","C","D","E","F","G","H","I","J","K","L","M","N","O","P","Q","R","S","T","U","V","W","X","Y","Z">> (* ABCDEFGHIJKLMNOPQRSTUVWXYZ *)
LowerChars == <<"a","b","c","d","e","f","g","h","i","j","k","l","m","n","o","p","q","r","s","t","u","v","w","x","y","z">> (* abcdefghijklmnopqrstuvwxyz *)

\* str.lower() on one character
ToLower(c) ==
    IF \E i \in 1..Len(UpperChars) : UpperChars[i] = c
    THEN LowerChars[CHOOSE i \in 1..Len(UpperChars) : UpperChars[i] = c]
    ELSE c

\* the characters \s matches and str.strip() removes
IsSpace(c) == c \in {" ", "\t", "\n"}

\* the characters \d matches
\* the backquote character, which a string of this language cannot hold
Backquote == "bq"

IsDigit(c) == c \in {"0", "1", "2", "3", "4", "5", "6", "7", "8", "9"}

Range(s) == { s[i] : i \in 1..Len(s) }

RECURSIVE LStrip(_)
LStrip(s) == IF s # <<>> /\ IsSpace(Head(s)) THEN LStrip(Tail(s)) ELSE s

RECURSIVE RStrip(_)
RStrip(s) ==
    IF s # <<>> /\ IsSpace(s[Len(s)]) THEN RStrip(SubSeq(s, 1, Len(s) - 1)) ELSE s

\* str.strip()
Strip(s) == RStrip(LStrip(s))

\* re.sub(r'\s+', ' ', s)
RECURSIVE CollapseSpace(_)
CollapseSpace(s) ==
    IF s = <<>> THEN <<>>
    ELSE IF IsSpace(Head(s)) THEN <<" ">> \o CollapseSpace(LStrip(s))
    ELSE <<Head(s)>> \o CollapseSpace(Tail(s))

(* A regular expression is a sequence of tokens: \s*, \s+, \d+, a literal,  *)
(* or an optional literal ("s?", "(es)?").                                   *)
WS0 == [t |-> "ws0"]
WS1 == [t |-> "ws1"]
Digits1 == [t |-> "digits"]
Lit(w) == [t |-> "lit", w |-> w]
Opt(w) == [t |-> "opt", w |-> w]

\* literal w occurs in s at position i (ic: re.IGNORECASE)
LitAt(w, s, i, ic) ==
    /\ i + Len(w) - 1 <= Len(s)
    /\ \A m \in 1..Len(w) :
          IF ic THEN ToLower(s[i + m - 1]) = ToLower(w[m]) ELSE s[i + m - 1] = w[m]

\* tokens k.. of pat match s from position i to its end
RECURSIVE MatchFrom(_, _, _, _, _)
MatchFrom(pat, k, s, i, ic) ==
    IF k > Len(pat) THEN i = Len(s) + 1
    ELSE LET tok == pat[k] IN
         CASE tok.t = "ws0" ->
                \E j \in i..(Len(s) + 1) :
                    /\ \A m \in i..(j - 1) : IsSpace(s[m])
                    /\ MatchFrom(pat, k + 1, s, j, ic)
           [] tok.t = "ws1" ->
                \E j \in (i + 1)..(Len(s) + 1) :
                    /\ \A m \in i..(j - 1) : IsSpace(s[m])
                    /\ MatchFrom(pat, k + 1, s, j, ic)
           [] tok.t = "digits" ->
                \E j \in (i + 1)..(Len(s) + 1) :
                    /\ \A m \in i..(j - 1) : IsDigit(s[m])
                    /\ MatchFrom(pat, k + 1, s, j, ic)
           [] tok.t = "lit" ->
                /\ LitAt(tok.w, s, i, ic)
                /\ MatchFrom(pat, k + 1, s, i + Len(tok.w), ic)
           [] tok.t = "opt" ->
                \/ MatchFrom(pat, k + 1, s, i, ic)
                \/ /\ LitAt(tok.w, s, i, ic)
                   /\ MatchFrom(pat, k + 1, s, i + Len(tok.w), ic)

\* re.fullmatch(pat, s, flags)
fullmatch(pat, s, ic) == MatchFrom(pat, 1, s, 1, ic)

\* re.search(pat, s, flags) for a pattern without anchors: a match of some slice
search(pat, s, ic) ==
    \E a \in 1..(Len(s) + 1) : \E b \in (a - 1)..Len(s) :
        MatchFrom(pat, 1, SubSeq(s, a, b), 1, ic)

---------------------------------------------------------------------------
(* _remove_references_from_paragraphs *)

reference_section_patterns ==
    << <<WS0, Lit(<<"R","e","f","e","r","e","n","c","e">> (* Reference *)), Opt(<<"s">>), WS0>>,
       <<WS0, Lit(<<"B","I","B","L","I","O","G","R","A","P","H","Y">> (* BIBLIOGRAPHY *)), WS0>>,
       <<WS0, Lit(<<"L","I","T","E","R","A","T","U","R","E">> (* LITERATURE *)), WS1, Lit(<<"C","I","T","E","D">> (* CITED *)), WS0>>,
       <<WS0, Lit(<<"A","c","k","n","o","w","l","e","d","g","e","m","e","n","t">> (* Acknowledgement *)), Opt(<<"s">>), WS0>>,
       <<WS0, Lit(<<"A","p","p","e","n","d","i","x">> (* Appendix *)), Opt(<<"e","s">>), WS0>>,
       <<WS0, Lit(<<"S","U","P","P","O","R","T","I","N","G">> (* SUPPORTING *)), WS1, Lit(<<"I","N","F","O","R","M","A","T","I","O","N">> (* INFORMATION *)), WS0>>,
       <<WS0, Lit(<<"S","U","P","P","L","E","M","E","N","T","A","R","Y">> (* SUPPLEMENTARY *)), WS1, Lit(<<"M","A","T","E","R","I","A","L">> (* MATERIAL *)), Opt(<<"S">>), WS0>>,
       <<WS0, Lit(<<"N","o","t","e">> (* Note *)), Opt(<<"s">>), WS1, Lit(<<"o","n">>), WS1,
         Lit(<<"C","o","n","t","r","i","b","u","t","o","r">> (* Contributor *)), Opt(<<"s">>), WS0>>,
       <<WS0, Lit(<<"A","U","T","H","O","R">> (* AUTHOR *)), WS1, Lit(<<"C","O","N","T","R","I","B","U","T","I","O","N">> (* CONTRIBUTION *)), Opt(<<"S">>), WS0>>,
       <<WS0, Lit(<<"F","U","N","D","I","N","G">> (* FUNDING *)), WS0>>,
       <<WS0, Lit(<<"C","O","N","F","L","I","C","T">> (* CONFLICT *)), Opt(<<"S">>), WS1, Lit(<<"O","F">>), WS1,
         Lit(<<"I","N","T","E","R","E","S","T">> (* INTEREST *)), WS0>>,
       <<WS0, Lit(<<"D","A","T","A">> (* DATA *)), WS1, Lit(<<"A","V","A","I","L","A","B","I","L","I","T","Y">> (* AVAILABILITY *)), WS1,
         Lit(<<"S","T","A","T","E","M","E","N","T">> (* STATEMENT *)), WS0>>,
       <<WS0, Lit(<<"O","R","C","I","D">> (* ORCID *)), WS0>> >>

\* r'^\s*\d+\.?\s*$'
number_pattern == <<WS0, Digits1, Opt(<<".">>), WS0>>

\* the length a kept paragraph must exceed
MinParagraphLen == 20

\* a variant that accepts a paragraph merely containing a header title
is_ancillary_header_search(p) ==
    \E n \in 1..Len(reference_section_patterns) :
        search(SubSeq(reference_section_patterns[n], 2,
                      Len(reference_section_patterns[n]) - 1), p, TRUE)

\* line 48
is_ancillary_header(p) ==
    \E n \in 1..Len(reference_section_patterns) :
        fullmatch(reference_section_patterns[n], p, TRUE)

\* a variant that starts inside an ancillary section
FilterInitState_inside == [in_ancillary_section |-> TRUE, processed |-> <<>>]

\* lines 43-44
FilterInitState == [in_ancillary_section |-> FALSE, processed |-> <<>>]

\* a variant that inserts at the front of the kept list
FilterLoopBody_prepend(st, p) ==
    IF is_ancillary_header(p)
    THEN [st EXCEPT !.in_ancillary_section = TRUE]
    ELSE IF st.in_ancillary_section THEN st
    ELSE [st EXCEPT !.processed = <<p>> \o @]

\* a variant whose flag follows the paragraph at hand: an ordinary paragraph
\* after a header clears it
FilterLoopBody_reset(st, p) ==
    IF is_ancillary_header(p)
    THEN [st EXCEPT !.in_ancillary_section = TRUE]
    ELSE [st EXCEPT !.in_ancillary_section = FALSE, !.processed = Append(@, p)]

\* lines 46-60: one iteration of the for loop
FilterLoopBody(st, p) ==
    IF is_ancillary_header(p)
    THEN [st EXCEPT !.in_ancillary_section = TRUE]
    ELSE IF st.in_ancillary_section THEN st
    ELSE [st EXCEPT !.processed = Append(@, p)]

\* a variant whose length test lets a paragraph of exactly 20 characters through
KeepParagraph_atleast(p) ==
    Len(p) >= MinParagraphLen /\ ~fullmatch(number_pattern, Strip(p), FALSE)

\* line 67: the condition of the final list comprehension
KeepParagraph(p) ==
    Len(p) > MinParagraphLen /\ ~fullmatch(number_pattern, Strip(p), FALSE)

\* a variant that loses the last kept paragraph
FinalCleanup_droplast(processed) ==
    SelectSeq(SubSeq(processed, 1, Len(processed) - 1), KeepParagraph)

\* lines 65-68
FinalCleanup(processed) == SelectSeq(processed, KeepParagraph)

RECURSIVE FilterLoop(_, _)
FilterLoop(st, ps) ==
    IF ps = <<>> THEN st ELSE FilterLoop(FilterLoopBody(st, Head(ps)), Tail(ps))

\* the whole function, as extract_from_xml calls it
remove_references_from_paragraphs(ps) ==
    IF ps = <<>> THEN <<>>
    ELSE FinalCleanup(FilterLoop(FilterInitState, ps).processed)

---------------------------------------------------------------------------
(* Text nodes of a document and the cleaning of line 147 *)

RawTextPool ==
    { <<"R","e","f","e","r","e","n","c","e","s">> (* References *),
      <<" ","R","E","F","E","R","E","N","C","E","\n">> (*  REFERENCE\n *),
      <<"N","o","t","e","s"," "," ","o","n","\t","C","o","n","t","r","i","b","u","t","o","r","s">> (* Notes  on\tContributors *),
      <<"S","e","e"," ","R","e","f","e","r","e","n","c","e","s"," ","f","o","r"," ","m","o","r","e",".">> (* See References for more. *),
      <<"B","o","d","y"," ","t","e","x","t","\n"," "," "," ","a","b","o","u","t"," ","P","L","G","A",".">> (* Body text\n   about PLGA. *),
      <<"E","x","a","c","t","l","y"," ","t","w","e","n","t","y"," ","c","h","a","r","s">> (* Exactly twenty chars *),
      <<"1","2","3","4","5","6","7","8","9","0","1","2","3","4","5","6","7","8","9","0","1",".">> (* 123456789012345678901. *) }

\* line 147: one cleaned paragraph
CleanText(t) == Strip(CollapseSpace(t))

\* the paragraphs extract_from_xml can hand to the filter
FilterPool == { CleanText(t) : t \in RawTextPool } \ {<<>>}

\* Scenario B of the specification's testable properties
ScenarioB ==
    << <<"1","."," ","I","n","t","r","o","d","u","c","t","i","o","n">> (* 1. Introduction *), <<"B","o","d","y"," ","t","e","x","t"," ","a","b","o","u","t"," ","P","L","G","A",".">> (* Body text about PLGA. *), <<"R","e","f","e","r","e","n","c","e","s">> (* References *),
       <<"A","u","t","h","o","r"," ","A","."," ","2","0","2","0",".">> (* Author A. 2020. *) >>

RECURSIVE SeqsUpTo(_, _)
SeqsUpTo(S, n) ==
    IF n = 0 THEN {<<>>}
    ELSE LET shorter == SeqsUpTo(S, n - 1) IN
         shorter \cup { Append(s, x) : s \in {q \in shorter : Len(q) = n - 1}, x \in S }

---------------------------------------------------------------------------
(* The filter, one loop iteration at a time *)

XIdle ==
    /\ doc = <<>>
    /\ fault = "none"
    /\ pc = "idle"
    /\ extracted_data = <<>>
    /\ tw_i = 1
    /\ result = <<>>

SIdle ==
    /\ text = <<>>
    /\ lines = <<>>
    /\ line_i = 1
    /\ current_paragraph_lines = <<>>
    /\ pdf_paragraphs = <<>>
    /\ cleaned_paragraphs = <<>>
    /\ current_idx = <<>>
    /\ paragraph_idx = <<>>
    /\ spc = "idle"

PIdle ==
    /\ calls = <<>>
    /\ heap = <<>>

LIdle ==
    /\ api_key = <<>>
    /\ response = <<>>
    /\ lpc = "idle"
    /\ exc = "none"
    /\ response_text = <<>>
    /\ json_string = <<>>
    /\ llm_result = <<>>

InitFilter ==
    /\ paragraphs \in SeqsUpTo(FilterPool, MaxParas) \cup {ScenarioB}
    /\ idx = 1
    /\ in_ancillary_section = FALSE
    /\ processed_paragraphs = <<>>
    /\ final_cleaned_paragraphs = <<>>
    /\ fpc = "start"
    /\ runs = <<>>
    /\ XIdle
    /\ SIdle
    /\ PIdle
    /\ LIdle

\* lines 21-22, and lines 43-44 when the list is not empty
FilterStart ==
    /\ fpc = "start"
    /\ IF paragraphs = <<>>
       THEN /\ final_cleaned_paragraphs' = <<>>
            /\ fpc' = "done"
            /\ runs' = Append(runs, [input |-> paragraphs, output |-> <<>>])
            /\ UNCHANGED <<in_ancillary_section, processed_paragraphs>>
       ELSE /\ in_ancillary_section' = FilterInitState.in_ancillary_section
            /\ processed_paragraphs' = FilterInitState.processed
            /\ fpc' = "loop"
            /\ UNCHANGED <<final_cleaned_paragraphs, runs>>
    /\ idx' = 1
    /\ UNCHANGED <<paragraphs, xvars, svars, pvars, lvars>>

\* lines 46-60
FilterLoopStep ==
    /\ fpc = "loop"
    /\ idx <= Len(paragraphs)
    /\ LET st == FilterLoopBody([in_ancillary_section |-> in_ancillary_section,
                                 processed |-> processed_paragraphs],
                                paragraphs[idx])
       IN /\ in_ancillary_section' = st.in_ancillary_section
          /\ processed_paragraphs' = st.processed
    /\ idx' = idx + 1
    /\ UNCHANGED <<paragraphs, final_cleaned_paragraphs, fpc, runs, xvars, svars, pvars, lvars>>

\* lines 65-70
FilterReturn ==
    /\ fpc = "loop"
    /\ idx > Len(paragraphs)
    /\ final_cleaned_paragraphs' = FinalCleanup(processed_paragraphs)
    /\ fpc' = "done"
    /\ runs' = Append(runs, [input |-> paragraphs,
                             output |-> FinalCleanup(processed_paragraphs)])
    /\ UNCHANGED <<paragraphs, idx, in_ancillary_section, processed_paragraphs, xvars, svars, pvars, lvars>>

\* the caller runs the filter again on its own output
FilterRerun ==
    /\ fpc = "done"
    /\ Len(runs) < MaxRuns
    /\ paragraphs' = final_cleaned_paragraphs
    /\ idx' = 1
    /\ in_ancillary_section' = FALSE
    /\ processed_paragraphs' = <<>>
    /\ final_cleaned_paragraphs' = <<>>
    /\ fpc' = "start"
    /\ UNCHANGED <<runs, xvars, svars, pvars, lvars>>

NextFilter == FilterStart \/ FilterLoopStep \/ FilterReturn \/ FilterRerun

SpecFilter == InitFilter /\ [][NextFilter]_vars

---------------------------------------------------------------------------
(* extract_from_xml: values and helpers *)

\* Python's None, and a present value, for an optional field or result
None == <<>>
Some(v) == <<v>>

\* sep.join(parts)
RECURSIVE Join(_, _)
Join(sep, parts) ==
    IF parts = <<>> THEN <<>>
    ELSE IF Len(parts) = 1 THEN parts[1]
    ELSE parts[1] \o sep \o Join(sep, Tail(parts))

\* the concatenation of a sequence of sequences
RECURSIVE Flatten(_)
Flatten(ss) == IF ss = <<>> THEN <<>> ELSE Head(ss) \o Flatten(Tail(ss))

\* [t.strip() for t in texts]
MapStrip(texts) == [i \in 1..Len(texts) |-> Strip(texts[i])]

NotBlank(t) == Strip(t) # <<>>

\* [re.sub(r'\s+', ' ', t).strip() for t in texts if t.strip()]
CleanAll(texts) ==
    LET kept == SelectSeq(texts, NotBlank)
    IN [i \in 1..Len(kept) |-> CleanText(kept[i])]

\* lines 88-96
InitialRecord(d) ==
    [ file_path |-> d.file_path,
      title |-> None,
      authors |-> <<>>,
      abstract |-> None,
      keywords |-> <<>>,
      body_paragraphs |-> <<>>,
      tables_data |-> <<>> ]

\* root.xpath('//title/text()'): the text of every title element, here the
\* section titles of the body, in document order
GenericTitles(d) == Flatten([i \in 1..Len(d.sections) |-> d.sections[i].title])

\* lines 103-107
extract_title(d) ==
    LET first == d.article_title
        texts == IF first = <<>> THEN GenericTitles(d) ELSE first
    IN IF texts # <<>> THEN Some(Strip(texts[1])) ELSE None

\* lines 115-120: what one author element appends
author_entry(a) ==
    IF a.surname # <<>> /\ a.given_names # <<>>
    THEN << Strip(a.given_names[1]) \o <<" ">> \o Strip(a.surname[1]) >>
    ELSE IF a.text # <<>> THEN << Strip(a.text) >>
    ELSE <<>>

\* lines 110-120
extract_authors(d) ==
    LET els == IF d.contrib_names # <<>> THEN d.contrib_names ELSE d.author_elems
    IN Flatten([i \in 1..Len(els) |-> author_entry(els[i])])

\* a variant without the guard of line 126
extract_abstract_unguarded(d) ==
    LET first == d.abstract_p_texts
        texts == IF first = <<>> THEN d.abstract_texts ELSE first
    IN Some(Join(<<" ">>, CleanAll(texts)))

\* lines 123-127
extract_abstract(d) ==
    LET first == d.abstract_p_texts
        texts == IF first = <<>> THEN d.abstract_texts ELSE first
    IN IF texts # <<>> THEN Some(Join(<<" ">>, CleanAll(texts))) ELSE None

\* lines 130-132
extract_keywords(d) == MapStrip(d.keywords)

\* ./caption//p/text() of the table-wrap elements inside section i
CaptionTextsIn(d, i) ==
    LET inside(tw) == tw.sec = i
        tws == SelectSeq(d.tables, inside)
    IN Flatten([k \in 1..Len(tws) |-> tws[k].caption_texts])

\* the text nodes of the p elements of section i, those under a ref-list
\* left out when skip_refs
SectionPTexts(d, i, skip_refs) ==
    LET wanted(par) == ~(skip_refs /\ par.in_ref_list)
        ps == SelectSeq(d.sections[i].ps, wanted)
    IN Flatten([k \in 1..Len(ps) |-> ps[k].texts]) \o CaptionTextsIn(d, i)

\* root.xpath('//body//p[not(ancestor::ref-list)]/text()') and
\* root.xpath('//body//p/text()')
BodyPTexts(d, skip_refs) ==
    Flatten([i \in 1..Len(d.sections) |-> SectionPTexts(d, i, skip_refs)])

\* lines 138-150
extract_body_paragraphs(d) ==
    LET precise == BodyPTexts(d, TRUE)
        raw == IF precise = <<>> THEN BodyPTexts(d, FALSE) ELSE precise
    IN remove_references_from_paragraphs(CleanAll(raw))

\* lines 169-170 and 175-176: the cells of a tr; a td or th contributes one
\* cell per text node it holds
RowCells(tr) == MapStrip(Flatten(tr))

\* lines 164-176
table_content_rows(tw) ==
    [i \in 1..Len(tw.thead) |-> RowCells(tw.thead[i])]
        \o [i \in 1..Len(tw.tbody) |-> RowCells(tw.tbody[i])]

\* a variant with a minimum of three dashes per column
Dashes_min3(col) == [i \in 1..(IF Len(col) < 3 THEN 3 ELSE Len(col)) |-> "-"]

\* "-" * len(col)
Dashes(col) == [i \in 1..Len(col) |-> "-"]

\* lines 183 and 189
RowLine(row) == <<"|"," ">> \o Join(<<" ","|"," ">> (*  |  *), row) \o <<" ","|","\n">> (*  |\n *)

\* line 186
SeparatorLine(header) ==
    <<"|","-">> \o Join(<<"-","|","-">> (* -|- *), [i \in 1..Len(header) |-> Dashes(header[i])]) \o <<"-","|","\n">> (* -|\n *)

\* lines 180-189
markdown_table_text(rows) ==
    RowLine(rows[1]) \o SeparatorLine(rows[1])
        \o Flatten([i \in 1..(Len(rows) - 1) |-> RowLine(rows[i + 1])])

\* lines 159-160 and 192-197
table_record(tw) ==
    [ id |-> IF tw.id # <<>> THEN tw.id[1] ELSE <<"N","/","A">> (* N/A *),
      caption |-> IF tw.caption_texts # <<>>
                  THEN Strip(Join(<<" ">>, tw.caption_texts)) ELSE <<>>,
      data_rows |-> table_content_rows(tw),
      text_representation |-> markdown_table_text(table_content_rows(tw)) ]

\* a variant of the handlers that hands back what was extracted so far
except_return_partial(data) == Some(data)

\* lines 200-205
except_return(data) == None

---------------------------------------------------------------------------
(* Documents *)

P(texts) == [texts |-> texts, in_ref_list |-> FALSE]
RefP(texts) == [texts |-> texts, in_ref_list |-> TRUE]

SectionPool ==
    { [title |-> << <<"1","."," ","I","n","t","r","o","d","u","c","t","i","o","n">> (* 1. Introduction *) >>,
       ps |-> << P(<< <<"B","o","d","y"," ","t","e","x","t","\n"," "," "," ","a","b","o","u","t"," ","P","L","G","A",".">> (* Body text\n   about PLGA. *), <<"\n"," "," ">> (* \n   *) >>) >>],
      [title |-> << <<"A","c","k","n","o","w","l","e","d","g","e","m","e","n","t","s">> (* Acknowledgements *) >>,
       ps |-> << P(<< <<"T","h","e"," ","a","u","t","h","o","r","s"," ","t","h","a","n","k"," ","a","g","e","n","c","y"," ","X",".">> (* The authors thank agency X. *) >>) >>],
      [title |-> <<>>,
       ps |-> << P(<< <<"D","r","u","g"," ","r","e","l","e","a","s","e">> (* Drug release *) , <<" ","w","a","s"," ","s","u","s","t","a","i","n","e","d"," ","o","v","e","r"," ","7"," ","d","a","y","s",".">> (*  was sustained over 7 days. *) >>),
                 P(<< <<" ","R","e","f","e","r","e","n","c","e","s"," ">> (*  References  *) >>),
                 P(<< <<"A","u","t","h","o","r"," ","A","."," ","e","t"," ","a","l",".",","," ","J","."," ","S","c","i","e","n","c","e",".">> (* Author A. et al., J. Science. *) >>) >>],
      [title |-> << <<"R","e","f","e","r","e","n","c","e","s">> (* References *) >>,
       ps |-> << RefP(<< <<"C","i","t","e","d"," ","w","o","r","k"," ","n","u","m","b","e","r"," ","o","n","e",","," ","2","0","2","0",".">> (* Cited work number one, 2020. *) >>) >>] }

Name(surname, given) == [surname |-> surname, given_names |-> given, text |-> <<>>]
Author(t) == [surname |-> <<>>, given_names |-> <<>>, text |-> t]

\* title, authors, abstract and keywords of the front matter
FrontPool ==
    { [article_title |-> << <<" ","P","L","G","A"," ","N","a","n","o","p","a","r","t","i","c","l","e","s","\n">> (*  PLGA Nanoparticles\n *) >>,
       contrib_names |-> << Name(<< <<"C","h","e","n">> (* Chen *) >>, << <<" ","L","i">> (*  Li *) >>) >>,
       author_elems |-> <<>>,
       abstract_p_texts |-> << <<"T","h","i","s"," "," ","s","t","u","d","y","\n","f","o","c","u","s","e","s",".">> (* This  study\nfocuses. *), <<" "," ">>, <<"T","h","e"," ","m","e","t","h","o","d",".">> (* The method. *) >>,
       abstract_texts |-> << <<"\n">> >>,
       keywords |-> << <<"P","L","G","A">> (* PLGA *), <<" ","D","r","u","g"," ","d","e","l","i","v","e","r","y"," ">> (*  Drug delivery  *) >>],
      [article_title |-> <<>>,
       contrib_names |-> <<>>,
       author_elems |-> <<>>,
       abstract_p_texts |-> <<>>,
       abstract_texts |-> <<>>,
       keywords |-> <<>>],
      [article_title |-> << <<"P","L","G","A"," ","N","a","n","o","p","a","r","t","i","c","l","e","s">> (* PLGA Nanoparticles *) >>,
       contrib_names |-> << Name(<< <<"C","h","e","n">> (* Chen *) >>, << <<"L","i">> >>) >>,
       author_elems |-> <<>>,
       abstract_p_texts |-> <<>>,
       abstract_texts |-> <<>>,
       keywords |-> << <<"P","L","G","A">> (* PLGA *) >>],
      [article_title |-> <<>>,
       contrib_names |-> <<>>,
       author_elems |-> << Author(<<" ","J","i","a","n"," ","W","a","n","g"," ">> (*  Jian Wang  *)), Author(<<>>),
                           Name(<< <<"C","h","e","n">> (* Chen *) >>, <<>>) >>,
       abstract_p_texts |-> <<>>,
       abstract_texts |-> << <<" ","P","l","a","i","n"," ","a","b","s","t","r","a","c","t"," "," ","t","e","x","t","."," ">> (*  Plain abstract  text.  *) >>,
       keywords |-> <<>>] }

Td(t) == << t >>
EmptyTd == <<>>

HeaderRowPool ==
    { << Td(<<"P","r","o","p","e","r","t","y">> (* Property *)), Td(<<"V","a","l","u","e">> (* Value *)), Td(<<"U","n","i","t">> (* Unit *)) >>,
      << Td(<<"N">>), Td(<<" ">>) >> }

BodyRowPool ==
    { << Td(<<"S","i","z","e">> (* Size *)), Td(<<"1","8","0">> (* 180 *)), Td(<<"n","m">>) >>,
      << Td(<<"P","D","I">> (* PDI *)), Td(<<" ","0",".","1","2"," ">> (*  0.12  *)), EmptyTd >>,
      << Td(<<"P","a","r","t","i","c","l","e","\n"," ","S","i","z","e">> (* Particle\n Size *)), Td(<<"1","8","0">> (* 180 *)) >>,
      << Td(<<"a">>), << <<"b">>, <<"c">> >>, Td(<<"d">>), Td(<<"e">>) >>,
      << EmptyTd >> }

\* id and caption of a table-wrap
TableHeadPool ==
    { [id |-> << <<"T","1">> >>, caption_texts |-> << <<"T","a","b","l","e"," ","1",".">> (* Table 1. *), <<" ","P","r","o","p","e","r","t","i","e","s"," ","o","f"," ","P","L","G","A"," ","N","a","n","o","p","a","r","t","i","c","l","e","s"," ">> (*  Properties of PLGA Nanoparticles  *) >>],
      [id |-> <<>>, caption_texts |-> <<>>] }

TableWrap(h, thead, tbody, sec) ==
    [id |-> h.id, caption_texts |-> h.caption_texts,
     thead |-> thead, tbody |-> tbody, sec |-> sec]

\* every table-wrap of the model, outside the body
TablePool ==
    { TableWrap(h, thead, tbody, 0) :
        h \in TableHeadPool,
        thead \in SeqsUpTo(HeaderRowPool, 1),
        tbody \in SeqsUpTo(BodyRowPool, MaxRows) }

\* a few table-wraps, to follow the first one of a document
LaterTablePool ==
    { TableWrap([id |-> << <<"T","2">> >>, caption_texts |-> <<>>], <<>>, <<>>, 0),
      TableWrap([id |-> <<>>, caption_texts |-> << <<"T","a","b","l","e"," ","2",".">> (* Table 2. *) >>],
                <<>>, << << Td(<<"x">>), Td(<<"1">>) >> >>, 0) }

Document(front, sections, tables, ok) ==
    [ file_path |-> <<"a",".","x","m","l">> (* a.xml *),
      well_formed |-> ok,
      article_title |-> front.article_title,
      contrib_names |-> front.contrib_names,
      author_elems |-> front.author_elems,
      abstract_p_texts |-> front.abstract_p_texts,
      abstract_texts |-> front.abstract_texts,
      keywords |-> front.keywords,
      sections |-> sections,
      tables |-> tables ]

EmptyFront == CHOOSE f \in FrontPool : f.article_title = <<>> /\ f.author_elems = <<>>

\* the table of the sample document, inside section sec (0: outside the body)
SampleTable(sec) ==
    TableWrap(CHOOSE h \in TableHeadPool : h.id # <<>>,
              << << Td(<<"P","r","o","p","e","r","t","y">> (* Property *)), Td(<<"V","a","l","u","e">> (* Value *)), Td(<<"U","n","i","t">> (* Unit *)) >> >>,
              << << Td(<<"S","i","z","e">> (* Size *)), Td(<<"1","8","0">> (* 180 *)), Td(<<"n","m">>) >> >>, sec)

\* the documents of the whole-extraction specification
Documents ==
    { Document(f, secs, tws, TRUE) :
        f \in FrontPool,
        secs \in SeqsUpTo(SectionPool, MaxSecs),
        tws \in {<<>>, <<SampleTable(0)>>} }
    \cup { Document(f, secs, <<SampleTable(1)>>, TRUE) :
        f \in FrontPool, secs \in SeqsUpTo(SectionPool, MaxSecs) \ {<<>>} }
    \cup { Document(EmptyFront, <<>>, <<>>, FALSE) }

\* the documents of the table specification
TableDocuments ==
    { Document(EmptyFront, <<>>, <<first>> \o rest, TRUE) :
        first \in TablePool, rest \in SeqsUpTo(LaterTablePool, MaxTables - 1) }

\* the steps of the try block, in order
Steps == <<"parse", "title", "authors", "abstract", "keywords", "body", "tables">>

FIdle ==
    /\ paragraphs = <<>>
    /\ idx = 1
    /\ in_ancillary_section = FALSE
    /\ processed_paragraphs = <<>>
    /\ final_cleaned_paragraphs = <<>>
    /\ fpc = "idle"
    /\ runs = <<>>

---------------------------------------------------------------------------
(* extract_from_xml, one numbered step of the try block at a time *)

Init ==
    /\ doc \in Documents
    /\ fault \in {"none"} \cup Range(Steps)
    /\ pc = "parse"
    /\ extracted_data = InitialRecord(doc)
    /\ tw_i = 1
    /\ result = None
    /\ FIdle
    /\ SIdle
    /\ PIdle
    /\ LIdle

\* lines 99-100: etree.parse raises XMLSyntaxError on malformed markup
Parse ==
    /\ pc = "parse"
    /\ fault # "parse"
    /\ pc' = IF doc.well_formed THEN "title" ELSE "except"
    /\ UNCHANGED <<doc, fault, extracted_data, tw_i, result, fvars, svars, pvars, lvars>>

\* lines 102-107
ExtractTitle ==
    /\ pc = "title"
    /\ fault # "title"
    /\ extracted_data' = [extracted_data EXCEPT !.title = extract_title(doc)]
    /\ pc' = "authors"
    /\ UNCHANGED <<doc, fault, tw_i, result, fvars, svars, pvars, lvars>>

\* lines 109-120
ExtractAuthors ==
    /\ pc = "authors"
    /\ fault # "authors"
    /\ extracted_data' = [extracted_data EXCEPT !.authors = extract_authors(doc)]
    /\ pc' = "abstract"
    /\ UNCHANGED <<doc, fault, tw_i, result, fvars, svars, pvars, lvars>>

\* lines 122-127
ExtractAbstract ==
    /\ pc = "abstract"
    /\ fault # "abstract"
    /\ extracted_data' = [extracted_data EXCEPT !.abstract = extract_abstract(doc)]
    /\ pc' = "keywords"
    /\ UNCHANGED <<doc, fault, tw_i, result, fvars, svars, pvars, lvars>>

\* lines 129-132
ExtractKeywords ==
    /\ pc = "keywords"
    /\ fault # "keywords"
    /\ extracted_data' = [extracted_data EXCEPT !.keywords = extract_keywords(doc)]
    /\ pc' = "body"
    /\ UNCHANGED <<doc, fault, tw_i, result, fvars, svars, pvars, lvars>>

\* lines 134-150
ExtractBody ==
    /\ pc = "body"
    /\ fault # "body"
    /\ extracted_data' =
          [extracted_data EXCEPT !.body_paragraphs = extract_body_paragraphs(doc)]
    /\ pc' = "tables"
    /\ tw_i' = 1
    /\ UNCHANGED <<doc, fault, result, fvars, svars, pvars, lvars>>

\* a variant without the guard of line 179
ExtractTable_unguarded ==
    /\ pc = "tables"
    /\ tw_i <= Len(doc.tables)
    /\ extracted_data' =
          [extracted_data EXCEPT
             !.tables_data =
                Append(@, IF table_content_rows(doc.tables[tw_i]) # <<>>
                          THEN table_record(doc.tables[tw_i])
                          ELSE [id |-> <<>>, caption |-> <<>>, data_rows |-> <<>>,
                                text_representation |-> <<>>])]
    /\ tw_i' = tw_i + 1
    /\ UNCHANGED <<doc, fault, pc, result, fvars, svars, pvars, lvars>>

\* lines 158-197: one table-wrap of the loop
ExtractTable ==
    /\ pc = "tables"
    /\ tw_i <= Len(doc.tables)
    /\ extracted_data' =
          IF table_content_rows(doc.tables[tw_i]) # <<>>
          THEN [extracted_data EXCEPT
                  !.tables_data = Append(@, table_record(doc.tables[tw_i]))]
          ELSE extracted_data
    /\ tw_i' = tw_i + 1
    /\ UNCHANGED <<doc, fault, pc, result, fvars, svars, pvars, lvars>>

\* line 207
ReturnRecord ==
    /\ pc = "tables"
    /\ fault # "tables"
    /\ tw_i > Len(doc.tables)
    /\ result' = Some(extracted_data)
    /\ pc' = "returned"
    /\ UNCHANGED <<doc, fault, extracted_data, tw_i, fvars, svars, pvars, lvars>>

\* an exception raised inside the step about to run (for the table loop,
\* before any iteration or between two)
Raise ==
    /\ pc = fault
    /\ pc' = "except"
    /\ UNCHANGED <<doc, fault, extracted_data, tw_i, result, fvars, svars, pvars, lvars>>

\* lines 200-205
ExceptReturn ==
    /\ pc = "except"
    /\ result' = except_return(extracted_data)
    /\ pc' = "returned"
    /\ UNCHANGED <<doc, fault, extracted_data, tw_i, fvars, svars, pvars, lvars>>

Next ==
    \/ Parse
    \/ ExtractTitle
    \/ ExtractAuthors
    \/ ExtractAbstract
    \/ ExtractKeywords
    \/ ExtractBody
    \/ ExtractTable
    \/ ReturnRecord
    \/ Raise
    \/ ExceptReturn

Spec == Init /\ [][Next]_vars

(* The table loop and the return, on documents that vary the tables *)
InitTable ==
    /\ doc \in TableDocuments
    /\ fault = "none"
    /\ pc = "tables"
    /\ extracted_data = InitialRecord(doc)
    /\ tw_i = 1
    /\ result = None
    /\ FIdle
    /\ SIdle
    /\ PIdle
    /\ LIdle

NextTable == ExtractTable \/ ReturnRecord

SpecTable == InitTable /\ [][NextTable]_vars

---------------------------------------------------------------------------
(* split_text_into_paragraphs of src/src/pdf_parser.py                      *)

\* str.replace('\r\n', '\n')
RECURSIVE ReplaceCRLF(_)
ReplaceCRLF(t) ==
    IF Len(t) < 2 THEN t
    ELSE IF t[1] = "\r" /\ t[2] = "\n"
         THEN <<"\n">> \o ReplaceCRLF(SubSeq(t, 3, Len(t)))
         ELSE <<t[1]>> \o ReplaceCRLF(Tail(t))

\* str.split(sep) for a one-character sep: one more piece than separators
RECURSIVE split(_, _)
split(t, sep) ==
    IF \E i \in 1..Len(t) : t[i] = sep
    THEN LET k == CHOOSE i \in 1..Len(t) :
                     /\ t[i] = sep
                     /\ \A j \in 1..(i - 1) : t[j] # sep
         IN <<SubSeq(t, 1, k - 1)>> \o split(SubSeq(t, k + 1, Len(t)), sep)
    ELSE <<t>>

\* str.startswith
StartsWith(s, prefix) ==
    Len(s) >= Len(prefix) /\ SubSeq(s, 1, Len(prefix)) = prefix

\* str.lower
Lower(s) == [i \in 1..Len(s) |-> ToLower(s[i])]

\* str.isupper of one character
IsUpper(c) == c \in Range(UpperChars)

sentence_enders == {".", "?", "!"}

\* the paragraphs shorter than this are dropped
MinPdfParagraphLen == 10

\* the state of the loop: the accumulator, the paragraphs, and for each the
\* positions of the lines it was built from
SplitInitState ==
    [current_paragraph_lines |-> <<>>, paragraphs |-> <<>>,
     current_idx |-> <<>>, paragraph_idx |-> <<>>]

\* paragraphs.append(" ".join(current_paragraph_lines)), then the reset
Flush(st) ==
    [current_paragraph_lines |-> <<>>,
     paragraphs |-> Append(st.paragraphs, Join(<<" ">>, st.current_paragraph_lines)),
     current_idx |-> <<>>,
     paragraph_idx |-> Append(st.paragraph_idx, st.current_idx)]

looks_like_new_start_upperonly(next_line) ==
    next_line # <<>> /\ IsUpper(next_line[1])

\* the second operand of the lookahead
looks_like_new_start(next_line) ==
    /\ next_line # <<>>
    /\ \/ IsUpper(next_line[1])
       \/ IsDigit(next_line[1])
       \/ StartsWith(Lower(next_line), <<"f","i","g",".">> (* fig. *))
       \/ StartsWith(Lower(next_line), <<"t","a","b","l","e">> (* table *))

SplitLoopBody_blankskip(st, ls, i) ==
    LET stripped_line == Strip(ls[i])
        st1 == [st EXCEPT !.current_paragraph_lines = Append(@, stripped_line),
                          !.current_idx = Append(@, i)]
    IN IF stripped_line = <<>> THEN st
       ELSE IF /\ i < Len(ls)
               /\ stripped_line[Len(stripped_line)] \in sentence_enders
               /\ looks_like_new_start(Strip(ls[i + 1]))
            THEN Flush(st1)
            ELSE st1

SplitLoopBody_nolookahead(st, ls, i) ==
    LET stripped_line == Strip(ls[i])
    IN IF stripped_line = <<>>
       THEN (IF st.current_paragraph_lines # <<>> THEN Flush(st) ELSE st)
       ELSE [st EXCEPT !.current_paragraph_lines = Append(@, stripped_line),
                       !.current_idx = Append(@, i)]

\* one iteration of the for loop, on line i (from 1) of ls
SplitLoopBody(st, ls, i) ==
    LET stripped_line == Strip(ls[i])
        st1 == [st EXCEPT !.current_paragraph_lines = Append(@, stripped_line),
                          !.current_idx = Append(@, i)]
    IN IF stripped_line = <<>>
       THEN (IF st.current_paragraph_lines # <<>> THEN Flush(st) ELSE st)
       ELSE IF /\ i < Len(ls)
               /\ stripped_line[Len(stripped_line)] \in sentence_enders
               /\ looks_like_new_start(Strip(ls[i + 1]))
            THEN Flush(st1)
            ELSE st1

AddLastParagraph_never(st) == st

\* the last paragraph, after the loop
AddLastParagraph(st) ==
    IF st.current_paragraph_lines # <<>> THEN Flush(st) ELSE st

\* re.sub(r'\s+', ' ', p).strip()
NormalizeParagraph(p) == Strip(CollapseSpace(p))

\* the two `continue` tests of the final cleaning
SkipParagraph(p) ==
    \/ Len(p) < MinPdfParagraphLen
    \/ fullmatch(<<Digits1>>, p, FALSE)

\* the final cleaning loop
RECURSIVE CleanParagraphs(_)
CleanParagraphs(ps) ==
    IF ps = <<>> THEN <<>>
    ELSE (IF SkipParagraph(Head(ps)) THEN <<>>
          ELSE <<NormalizeParagraph(Head(ps))>>) \o CleanParagraphs(Tail(ps))

\* the lines the texts are made of: with and without a closing terminator,
\* starting in upper case, lower case, a digit, "fig." or "table", blank,
\* and with an inner run of blanks
LinePool ==
    { <<"T","e","n"," ","c","h","a","r","s",".">> (* Ten chars. *), <<"N","i","n","e"," ","c","h","a","r">> (* Nine char *), <<"f","i","g","."," ","2"," ","i","s"," ","h","e","r","e","?">> (* fig. 2 is here? *), <<"t","a","b","l","e"," ","1"," ","l","i","s","t","s">> (* table 1 lists *),
      <<"c","o","n","t","i","n","u","e","s"," ","t","h","e"," ","t","h","o","u","g","h","t","!">> (* continues the thought! *), <<"w","i","d","e"," ","\t"," "," ","g","a","p">> (* wide \t  gap *), <<"1","2","3","4","5","6","7","8","9","0">> (* 1234567890 *), <<>>, <<" ">> }

ScenarioA == <<"I","n","t","r","o"," ","s","e","n","t","e","n","c","e"," ","h","e","r","e",".","\n","N","e","x","t"," ","P","a","r","a"," ","s","t","a","r","t","s",".","\n","\n","F","i","n","a","l"," ","p","a","r","a","g","r","a","p","h"," ","t","e","x","t",".">> (* Intro sentence here.\nNext Para starts.\n\nFinal paragraph text. *)

ScenarioA_CRLF == <<"I","n","t","r","o"," ","s","e","n","t","e","n","c","e"," ","h","e","r","e",".","\r","\n","N","e","x","t"," ","P","a","r","a"," ","s","t","a","r","t","s",".","\r","\n","\r","\n","F","i","n","a","l"," ","p","a","r","a","g","r","a","p","h"," ","t","e","x","t",".">> (* Intro sentence here.\r\nNext Para starts.\r\n\r\nFinal paragraph text. *)

TextPool ==
    { Join(<<"\n">>, ls) : ls \in SeqsUpTo(LinePool, MaxLines) }
        \cup {ScenarioA, ScenarioA_CRLF}

SplitState ==
    [current_paragraph_lines |-> current_paragraph_lines,
     paragraphs |-> pdf_paragraphs,
     current_idx |-> current_idx, paragraph_idx |-> paragraph_idx]

InitSplit ==
    /\ text \in TextPool
    /\ lines = <<>>
    /\ line_i = 1
    /\ current_paragraph_lines = <<>>
    /\ pdf_paragraphs = <<>>
    /\ cleaned_paragraphs = <<>>
    /\ current_idx = <<>>
    /\ paragraph_idx = <<>>
    /\ spc = "start"
    /\ FIdle
    /\ XIdle
    /\ PIdle
    /\ LIdle

\* lines 30-37
SplitStart ==
    /\ spc = "start"
    /\ IF text = <<>>
       THEN /\ spc' = "done"
            /\ UNCHANGED lines
       ELSE /\ spc' = "loop"
            /\ lines' = split(ReplaceCRLF(text), "\n")
    /\ UNCHANGED <<text, line_i, current_paragraph_lines, pdf_paragraphs,
                   cleaned_paragraphs, current_idx, paragraph_idx, fvars, xvars, pvars, lvars>>

\* lines 42-69: one iteration of the for loop
SplitLoopStep ==
    /\ spc = "loop"
    /\ line_i <= Len(lines)
    /\ LET st == SplitLoopBody(SplitState, lines, line_i)
       IN /\ current_paragraph_lines' = st.current_paragraph_lines
          /\ pdf_paragraphs' = st.paragraphs
          /\ current_idx' = st.current_idx
          /\ paragraph_idx' = st.paragraph_idx
    /\ line_i' = line_i + 1
    /\ UNCHANGED <<text, lines, cleaned_paragraphs, spc, fvars, xvars, pvars, lvars>>

\* lines 77-97: the last paragraph, the final cleaning, the return
SplitReturn ==
    /\ spc = "loop"
    /\ line_i > Len(lines)
    /\ LET st == AddLastParagraph(SplitState)
       IN /\ current_paragraph_lines' = st.current_paragraph_lines
          /\ pdf_paragraphs' = st.paragraphs
          /\ current_idx' = st.current_idx
          /\ paragraph_idx' = st.paragraph_idx
          /\ cleaned_paragraphs' = CleanParagraphs(st.paragraphs)
    /\ spc' = "done"
    /\ UNCHANGED <<text, lines, line_i, fvars, xvars, pvars, lvars>>

NextSplit == SplitStart \/ SplitLoopStep \/ SplitReturn

SpecSplit == InitSplit /\ [][NextSplit]_vars

---------------------------------------------------------------------------
(* Several calls of extract_from_xml, one per worker, interleaved step by   *)
(* step. A call keeps its position and its local names in its frame; the    *)
(* dict it fills lives in the heap.                                          *)

Workers == 1..MaxWorkers

\* a variant where every call fills one dict kept at module level
RecordOf_shared(w) == 1

\* the dict the call of worker w fills: the one it built itself
RecordOf(w) == w

\* what one step of the try block stores in the dict
StepResult(d, step, data) ==
    CASE step = "title" -> [data EXCEPT !.title = extract_title(d)]
      [] step = "authors" -> [data EXCEPT !.authors = extract_authors(d)]
      [] step = "abstract" -> [data EXCEPT !.abstract = extract_abstract(d)]
      [] step = "keywords" -> [data EXCEPT !.keywords = extract_keywords(d)]
      [] step = "body" ->
            [data EXCEPT !.body_paragraphs = extract_body_paragraphs(d)]

\* the step after a step of the try block
StepAfter(step) ==
    CHOOSE s \in Range(Steps) :
        \E i \in 1..(Len(Steps) - 1) : Steps[i] = step /\ Steps[i + 1] = s

\* the documents and faults of the workers: two well-formed documents that
\* differ in every field, one of them also with a failing body step, and a
\* malformed one
WorkerInputs ==
    { [doc |-> Document(CHOOSE f \in FrontPool : Len(f.keywords) = 2,
                        <<>>, <<SampleTable(0)>>, TRUE),
       fault |-> "none"],
      [doc |-> [Document(CHOOSE f \in FrontPool : f.author_elems # <<>>,
                         << CHOOSE s \in SectionPool : s.title = << <<"1","."," ","I","n","t","r","o","d","u","c","t","i","o","n">> (* 1. Introduction *) >> >>,
                         <<>>, TRUE)
                  EXCEPT !.file_path = <<"b",".","x","m","l">> (* b.xml *)],
       fault |-> "none"],
      [doc |-> Document(CHOOSE f \in FrontPool : Len(f.keywords) = 2,
                        <<>>, <<SampleTable(0)>>, TRUE),
       fault |-> "body"],
      [doc |-> Document(EmptyFront, <<>>, <<>>, FALSE), fault |-> "none"] }

InitPar ==
    /\ calls \in [Workers ->
                    { [doc |-> i.doc, fault |-> i.fault, pc |-> "call",
                       tw_i |-> 1, result |-> None] : i \in WorkerInputs }]
    /\ heap = [o \in Workers |-> None]
    /\ FIdle
    /\ XIdle
    /\ SIdle
    /\ LIdle

\* lines 88-96
WorkerCall(w) ==
    /\ calls[w].pc = "call"
    /\ heap' = [heap EXCEPT ![RecordOf(w)] = Some(InitialRecord(calls[w].doc))]
    /\ calls' = [calls EXCEPT ![w].pc = "parse"]
    /\ UNCHANGED <<fvars, xvars, svars, lvars>>

\* lines 99-100
WorkerParse(w) ==
    /\ calls[w].pc = "parse"
    /\ calls[w].fault # "parse"
    /\ calls' = [calls EXCEPT
                   ![w].pc = IF calls[w].doc.well_formed THEN "title" ELSE "except"]
    /\ UNCHANGED <<heap, fvars, xvars, svars, lvars>>

\* lines 102-150: one of the steps title, authors, abstract, keywords, body
WorkerExtract(w) ==
    /\ calls[w].pc \in {"title", "authors", "abstract", "keywords", "body"}
    /\ calls[w].fault # calls[w].pc
    /\ heap' = [heap EXCEPT
                  ![RecordOf(w)] =
                      Some(StepResult(calls[w].doc, calls[w].pc, @[1]))]
    /\ calls' = [calls EXCEPT ![w].pc = StepAfter(calls[w].pc), ![w].tw_i = 1]
    /\ UNCHANGED <<fvars, xvars, svars, lvars>>

\* lines 158-197: one table-wrap of the loop
WorkerExtractTable(w) ==
    /\ calls[w].pc = "tables"
    /\ calls[w].tw_i <= Len(calls[w].doc.tables)
    /\ heap' =
          IF table_content_rows(calls[w].doc.tables[calls[w].tw_i]) # <<>>
          THEN [heap EXCEPT
                  ![RecordOf(w)] =
                      Some([@[1] EXCEPT
                              !.tables_data =
                                  Append(@, table_record(calls[w].doc.tables[calls[w].tw_i]))])]
          ELSE heap
    /\ calls' = [calls EXCEPT ![w].tw_i = @ + 1]
    /\ UNCHANGED <<fvars, xvars, svars, lvars>>

\* line 207
WorkerReturn(w) ==
    /\ calls[w].pc = "tables"
    /\ calls[w].fault # "tables"
    /\ calls[w].tw_i > Len(calls[w].doc.tables)
    /\ calls' = [calls EXCEPT ![w].result = heap[RecordOf(w)], ![w].pc = "returned"]
    /\ UNCHANGED <<heap, fvars, xvars, svars, lvars>>

\* an exception raised inside the step about to run
WorkerRaise(w) ==
    /\ calls[w].pc = calls[w].fault
    /\ calls' = [calls EXCEPT ![w].pc = "except"]
    /\ UNCHANGED <<heap, fvars, xvars, svars, lvars>>

\* lines 200-205
WorkerExcept(w) ==
    /\ calls[w].pc = "except"
    /\ calls' = [calls EXCEPT ![w].result = except_return(heap[RecordOf(w)][1]),
                              ![w].pc = "returned"]
    /\ UNCHANGED <<heap, fvars, xvars, svars, lvars>>

WorkerStep(w) ==
    \/ WorkerCall(w)
    \/ WorkerParse(w)
    \/ WorkerExtract(w)
    \/ WorkerExtractTable(w)
    \/ WorkerReturn(w)
    \/ WorkerRaise(w)
    \/ WorkerExcept(w)

NextPar == \E w \in Workers : WorkerStep(w)

SpecPar == InitPar /\ [][NextPar]_vars

---------------------------------------------------------------------------
(* call_llm_for_extraction of src/src/llm_interface.py                      *)

(* json.loads, on the JSON of the response texts below: objects, arrays,    *)
(* strings without escapes, integers and decimals, true, false, null. A     *)
(* parsed value is a tagged tuple; Python's None is the parsed null.        *)
PyNone == <<"null">>

JFail == [ok |-> FALSE, val |-> <<>>, next |-> 0]
JOk(v, n) == [ok |-> TRUE, val |-> v, next |-> n]

\* the first position from i on that holds no whitespace
RECURSIVE SkipWs(_, _)
SkipWs(s, i) == IF i <= Len(s) /\ IsSpace(s[i]) THEN SkipWs(s, i + 1) ELSE i

\* the first position from i on that holds no digit
RECURSIVE DigitsEnd(_, _)
DigitsEnd(s, i) == IF i <= Len(s) /\ IsDigit(s[i]) THEN DigitsEnd(s, i + 1) ELSE i

ParseNumber(s, i) ==
    LET a == IF i <= Len(s) /\ s[i] = "-" THEN i + 1 ELSE i
        b == DigitsEnd(s, a)
        c == IF b <= Len(s) /\ s[b] = "." THEN DigitsEnd(s, b + 1) ELSE b
    IN IF /\ b > a
          /\ (s[a] = "0" => b = a + 1)
          /\ (c = b \/ c > b + 1)
       THEN JOk(<<"num", SubSeq(s, i, c - 1)>>, c)
       ELSE JFail

\* s[i] is the opening quote
ParseString(s, i) ==
    IF \E j \in (i + 1)..Len(s) : s[j] = "\""
    THEN LET j == CHOOSE j \in (i + 1)..Len(s) :
                     /\ s[j] = "\""
                     /\ \A m \in (i + 1)..(j - 1) : s[m] # "\""
         IN IF \A m \in (i + 1)..(j - 1) : s[m] \notin {"\\", "\n", "\t", "\r"}
            THEN JOk(<<"str", SubSeq(s, i + 1, j - 1)>>, j + 1)
            ELSE JFail
    ELSE JFail

RECURSIVE ParseValue(_, _)
RECURSIVE ParseElements(_, _, _)
RECURSIVE ParseMembers(_, _, _)

\* the elements of an array after "[" or ",", up to "]"
ParseElements(s, i, acc) ==
    LET v == ParseValue(s, i)
        k == SkipWs(s, v.next)
    IN IF ~v.ok \/ k > Len(s) THEN JFail
       ELSE IF s[k] = "," THEN ParseElements(s, k + 1, Append(acc, v.val))
       ELSE IF s[k] = "]" THEN JOk(<<"arr", Append(acc, v.val)>>, k + 1)
       ELSE JFail

\* the members of an object after "{" or ",", up to "}"
ParseMembers(s, i, acc) ==
    LET j == SkipWs(s, i)
        key == IF j <= Len(s) /\ s[j] = "\"" THEN ParseString(s, j) ELSE JFail
        c == SkipWs(s, key.next)
        v == IF key.ok /\ c <= Len(s) /\ s[c] = ":" THEN ParseValue(s, c + 1) ELSE JFail
        k == SkipWs(s, v.next)
    IN IF ~v.ok \/ k > Len(s) THEN JFail
       ELSE IF s[k] = "," THEN ParseMembers(s, k + 1, Append(acc, <<key.val[2], v.val>>))
       ELSE IF s[k] = "}" THEN JOk(<<"obj", Append(acc, <<key.val[2], v.val>>)>>, k + 1)
       ELSE JFail

ParseValue(s, i) ==
    LET j == SkipWs(s, i)
        k == SkipWs(s, j + 1)
    IN IF j > Len(s) THEN JFail
       ELSE IF s[j] = "{"
            THEN (IF k <= Len(s) /\ s[k] = "}" THEN JOk(<<"obj", <<>>>>, k + 1)
                  ELSE ParseMembers(s, j + 1, <<>>))
       ELSE IF s[j] = "["
            THEN (IF k <= Len(s) /\ s[k] = "]" THEN JOk(<<"arr", <<>>>>, k + 1)
                  ELSE ParseElements(s, j + 1, <<>>))
       ELSE IF s[j] = "\"" THEN ParseString(s, j)
       ELSE IF LitAt(<<"t","r","u","e">> (* true *), s, j, FALSE) THEN JOk(<<"bool", "true">>, j + 4)
       ELSE IF LitAt(<<"f","a","l","s","e">> (* false *), s, j, FALSE) THEN JOk(<<"bool", "false">>, j + 5)
       ELSE IF LitAt(<<"n","u","l","l">> (* null *), s, j, FALSE) THEN JOk(PyNone, j + 4)
       ELSE ParseNumber(s, j)

\* json.loads(s): ok is FALSE where it raises JSONDecodeError
json_loads(s) ==
    LET v == ParseValue(s, 1)
    IN IF v.ok /\ SkipWs(s, v.next) > Len(s) THEN v ELSE JFail

\* three backquotes, "json" and a line break
FenceOpen == <<Backquote,Backquote,Backquote,"j","s","o","n","\n">>
\* a line break and three backquotes
FenceClose == <<"\n",Backquote,Backquote,Backquote>>

\* re.search of line 83 (FenceOpen, any text, FenceClose; re.DOTALL): the
\* group of the leftmost match, greedy, or None
json_match(s) ==
    LET Closes(a) == { b \in (a + Len(FenceOpen))..Len(s) : LitAt(FenceClose, s, b, FALSE) }
        Opens == { a \in 1..Len(s) : LitAt(FenceOpen, s, a, FALSE) /\ Closes(a) # {} }
    IN IF Opens = {} THEN None
       ELSE LET a == CHOOSE x \in Opens : \A y \in Opens : x <= y
                b == CHOOSE x \in Closes(a) : \A y \in Closes(a) : y <= x
            IN Some(SubSeq(s, a + Len(FenceOpen), b - 1))

\* lines 68-74: the text of the first candidate
candidate_text(c) ==
    IF c.has_text THEN c.text
    ELSE IF c.has_parts THEN Flatten(c.parts)
    ELSE <<>>

\* lines 83-88
extract_json_string(t) ==
    IF json_match(t) # None THEN Strip(json_match(t)[1]) ELSE Strip(t)

\* the first candidate of a response, by the attributes lines 70-74 look for
TextCandidate(t) == [has_text |-> TRUE, text |-> t, has_parts |-> FALSE, parts |-> <<>>]
PartsCandidate(parts) == [has_text |-> FALSE, text |-> <<>>, has_parts |-> TRUE, parts |-> parts]
BareCandidate == [has_text |-> FALSE, text |-> <<>>, has_parts |-> FALSE, parts |-> <<>>]

\* what model.generate_content does: raise, or return these candidates
Raising(kind) == [raises |-> kind, candidates |-> <<>>]
Returning(cands) == [raises |-> "none", candidates |-> cands]

\* response texts: JSON bare and fenced, with prose around the fence, with
\* blanks around, not JSON, a fence without its closing line break, blank
ResponseTextPool ==
    { <<"{","\"","a","\"",":"," ","1","}">> (* {"a": 1} *), <<Backquote,Backquote,Backquote,"j","s","o","n","\n","{","\"","a","\"",":"," ","1","}","\n",Backquote,Backquote,Backquote>>,
      <<"H","e","r","e",":","\n",Backquote,Backquote,Backquote,"j","s","o","n","\n","[","1",","," ","2",".","5","]","\n",Backquote,Backquote,Backquote,"\n","D","o","n","e">>, <<" "," ","[","t","r","u","e","]"," "," ","\n">> (*   [true]  \n *),
      <<"n","o","t"," ","j","s","o","n">> (* not json *), <<Backquote,Backquote,Backquote,"j","s","o","n","\n","n","o","t"," ","j","s","o","n","\n",Backquote,Backquote,Backquote>>, <<"n","u","l","l">> (* null *),
      <<Backquote,Backquote,Backquote,"j","s","o","n","\n","{","\"","a","\"",":"," ","1","}",Backquote,Backquote,Backquote>>, <<" "," "," ">> (*     *), <<>> }

ResponsePool ==
    { Raising("ValueError"), Raising("Exception"),
      Returning(<<>>), Returning(<<BareCandidate>>),
      Returning(<<PartsCandidate(<<>>)>>),
      Returning(<<PartsCandidate(<< <<"{","\"","a","\"",":">> (* {"a": *), <<" ","1","}">> (*  1} *) >>)>>),
      Returning(<<TextCandidate(<<"[","1","]">> (* [1] *)), TextCandidate(<<"n","o","t"," ","j","s","o","n">> (* not json *))>>) }
    \cup { Returning(<<TextCandidate(t)>>) : t \in ResponseTextPool }

\* os.getenv("GOOGLE_API_KEY"): unset, set to the empty string, set
ApiKeyPool == { None, Some(<<>>), Some(<<"k","3","y">> (* k3y *)) }

InitLLM ==
    /\ api_key \in ApiKeyPool
    /\ response \in ResponsePool
    /\ lpc = "init"
    /\ exc = "none"
    /\ response_text = <<>>
    /\ json_string = <<>>
    /\ llm_result = <<>>
    /\ FIdle
    /\ XIdle
    /\ SIdle
    /\ PIdle

\* line 55, with lines 23-40: the call stands before the try statement, so
\* the ValueError of line 26 leaves call_llm_for_extraction
LlmInitialize ==
    /\ lpc = "init"
    /\ IF api_key = None \/ api_key[1] = <<>>
       THEN /\ exc' = "ValueError"
            /\ lpc' = "raised"
       ELSE /\ lpc' = "generate"
            /\ UNCHANGED exc
    /\ UNCHANGED <<api_key, response, response_text, json_string, llm_result,
                   fvars, xvars, svars, pvars>>

\* line 60, inside the try statement
LlmGenerate ==
    /\ lpc = "generate"
    /\ IF response.raises # "none"
       THEN /\ exc' = response.raises
            /\ lpc' = "except"
       ELSE /\ lpc' = "candidates"
            /\ UNCHANGED exc
    /\ UNCHANGED <<api_key, response, response_text, json_string, llm_result,
                   fvars, xvars, svars, pvars>>

\* lines 63-66
LlmCandidates ==
    /\ lpc = "candidates"
    /\ IF response.candidates = <<>>
       THEN /\ llm_result' = PyNone
            /\ lpc' = "returned"
       ELSE /\ lpc' = "text"
            /\ UNCHANGED llm_result
    /\ UNCHANGED <<api_key, response, exc, response_text, json_string,
                   fvars, xvars, svars, pvars>>

\* lines 68-78
LlmText ==
    /\ lpc = "text"
    /\ response_text' = candidate_text(response.candidates[1])
    /\ IF candidate_text(response.candidates[1]) = <<>>
       THEN /\ llm_result' = PyNone
            /\ lpc' = "returned"
       ELSE /\ lpc' = "parse"
            /\ UNCHANGED llm_result
    /\ UNCHANGED <<api_key, response, exc, json_string, fvars, xvars, svars, pvars>>

\* lines 83-93: json.JSONDecodeError is a ValueError
LlmParse ==
    /\ lpc = "parse"
    /\ json_string' = extract_json_string(response_text)
    /\ IF json_loads(extract_json_string(response_text)).ok
       THEN /\ llm_result' = json_loads(extract_json_string(response_text)).val
            /\ lpc' = "returned"
            /\ UNCHANGED exc
       ELSE /\ exc' = "JSONDecodeError"
            /\ lpc' = "except"
            /\ UNCHANGED llm_result
    /\ UNCHANGED <<api_key, response, response_text, fvars, xvars, svars, pvars>>

\* lines 95-106: each of the three handlers returns None
LlmExcept ==
    /\ lpc = "except"
    /\ llm_result' = PyNone
    /\ lpc' = "returned"
    /\ UNCHANGED <<api_key, response, exc, response_text, json_string,
                   fvars, xvars, svars, pvars>>

NextLLM ==
    \/ LlmInitialize
    \/ LlmGenerate
    \/ LlmCandidates
    \/ LlmText
    \/ LlmParse
    \/ LlmExcept

SpecLLM == InitLLM /\ [][NextLLM]_vars

---------------------------------------------------------------------------
(* What the specification says of the filter, stated without the code's    *)
(* regular expressions                                                     *)

MapLower(s) == [i \in 1..Len(s) |-> ToLower(s[i])]

\* the recognised titles, lower case, words separated by one space
ListedTitles ==
    { <<"r","e","f","e","r","e","n","c","e">> (* reference *), <<"r","e","f","e","r","e","n","c","e","s">> (* references *), <<"b","i","b","l","i","o","g","r","a","p","h","y">> (* bibliography *), <<"l","i","t","e","r","a","t","u","r","e"," ","c","i","t","e","d">> (* literature cited *),
      <<"a","c","k","n","o","w","l","e","d","g","e","m","e","n","t">> (* acknowledgement *), <<"a","c","k","n","o","w","l","e","d","g","e","m","e","n","t","s">> (* acknowledgements *), <<"a","p","p","e","n","d","i","x">> (* appendix *), <<"a","p","p","e","n","d","i","x","e","s">> (* appendixes *),
      <<"s","u","p","p","o","r","t","i","n","g"," ","i","n","f","o","r","m","a","t","i","o","n">> (* supporting information *), <<"s","u","p","p","l","e","m","e","n","t","a","r","y"," ","m","a","t","e","r","i","a","l">> (* supplementary material *),
      <<"s","u","p","p","l","e","m","e","n","t","a","r","y"," ","m","a","t","e","r","i","a","l","s">> (* supplementary materials *), <<"n","o","t","e"," ","o","n"," ","c","o","n","t","r","i","b","u","t","o","r">> (* note on contributor *),
      <<"n","o","t","e","s"," ","o","n"," ","c","o","n","t","r","i","b","u","t","o","r">> (* notes on contributor *), <<"n","o","t","e"," ","o","n"," ","c","o","n","t","r","i","b","u","t","o","r","s">> (* note on contributors *),
      <<"n","o","t","e","s"," ","o","n"," ","c","o","n","t","r","i","b","u","t","o","r","s">> (* notes on contributors *), <<"a","u","t","h","o","r"," ","c","o","n","t","r","i","b","u","t","i","o","n">> (* author contribution *),
      <<"a","u","t","h","o","r"," ","c","o","n","t","r","i","b","u","t","i","o","n","s">> (* author contributions *), <<"f","u","n","d","i","n","g">> (* funding *), <<"c","o","n","f","l","i","c","t"," ","o","f"," ","i","n","t","e","r","e","s","t">> (* conflict of interest *),
      <<"c","o","n","f","l","i","c","t","s"," ","o","f"," ","i","n","t","e","r","e","s","t">> (* conflicts of interest *), <<"d","a","t","a"," ","a","v","a","i","l","a","b","i","l","i","t","y"," ","s","t","a","t","e","m","e","n","t">> (* data availability statement *), <<"o","r","c","i","d">> (* orcid *) }

\* the entire trimmed paragraph is, case-insensitively, a listed title
IsHeaderParagraph(p) == MapLower(CollapseSpace(Strip(p))) \in ListedTitles

\* the position of the first header, Len(ps) + 1 when there is none
FirstHeader(ps) ==
    IF \E i \in 1..Len(ps) : IsHeaderParagraph(ps[i])
    THEN CHOOSE i \in 1..Len(ps) :
            /\ IsHeaderParagraph(ps[i])
            /\ \A j \in 1..(i - 1) : ~IsHeaderParagraph(ps[j])
    ELSE Len(ps) + 1

BeforeFirstHeader(ps) == SubSeq(ps, 1, FirstHeader(ps) - 1)

\* a is b with some elements left out
RECURSIVE IsSubseq(_, _)
IsSubseq(a, b) ==
    IF a = <<>> THEN TRUE
    ELSE IF b = <<>> THEN FALSE
    ELSE IF Head(a) = Head(b) THEN IsSubseq(Tail(a), Tail(b))
    ELSE IsSubseq(a, Tail(b))

\* digits only, with an optional trailing period
DigitOnly(p) ==
    LET t == Strip(p)
        d == IF t # <<>> /\ t[Len(t)] = "." THEN SubSeq(t, 1, Len(t) - 1) ELSE t
    IN d # <<>> /\ \A i \in 1..Len(d) : IsDigit(d[i])

\* the paragraph passes the final cleanup as the specification words it
SurvivesCleanup(p) == Len(Strip(p)) > 20 /\ ~DigitOnly(p)

\* the paragraph mentions a header title without being one
MentionsTitle(p) == p = <<"S","e","e"," ","R","e","f","e","r","e","n","c","e","s"," ","f","o","r"," ","m","o","r","e",".">> (* See References for more. *)

(* C1: the output is built only from input positions strictly before the    *)
(* first recognised ancillary header (the header and everything after it    *)
(* are absent); a header is a paragraph whose entire trimmed text is,       *)
(* case-insensitively, a listed title, so a paragraph that only mentions a  *)
(* title removes nothing: every paragraph before the first header that      *)
(* passes the cleanup is still in the output.                               *)
C1_OnlyBeforeFirstHeader ==
    fpc = "done" =>
        /\ IsSubseq(final_cleaned_paragraphs, BeforeFirstHeader(paragraphs))
        /\ \A j \in 1..(FirstHeader(paragraphs) - 1) :
              SurvivesCleanup(paragraphs[j])
                  => paragraphs[j] \in Range(final_cleaned_paragraphs)

\* a paragraph mentioning "References" is kept, the header after it and the
\* body text after the header are gone
C1_Witness ==
    /\ fpc = "done"
    /\ Len(paragraphs) = 3
    /\ MentionsTitle(paragraphs[1])
    /\ paragraphs[2] = <<"R","E","F","E","R","E","N","C","E">> (* REFERENCE *)
    /\ paragraphs[3] = <<"B","o","d","y"," ","t","e","x","t"," ","a","b","o","u","t"," ","P","L","G","A",".">> (* Body text about PLGA. *)
    /\ final_cleaned_paragraphs = <<paragraphs[1]>>

(* C2: the filter is idempotent: run on its own output it returns that      *)
(* output unchanged.                                                        *)
C2_Idempotent ==
    (fpc = "done" /\ Len(runs) >= 2) =>
        /\ runs[Len(runs)].input = runs[Len(runs) - 1].output
        /\ runs[Len(runs)].output = runs[Len(runs) - 1].output

\* a second run on a non-empty output of a first run that removed something
C2_Witness ==
    /\ fpc = "done"
    /\ Len(runs) = 2
    /\ runs[2].output # <<>>
    /\ Len(runs[1].output) < Len(runs[1].input)

(* C3: the output is a subsequence of the input: unmodified input           *)
(* paragraphs, in input order, nothing inserted or duplicated.              *)
C3_Subsequence ==
    fpc = "done" => IsSubseq(final_cleaned_paragraphs, paragraphs)

\* two paragraphs kept in order around a dropped one
C3_Witness ==
    /\ fpc = "done"
    /\ Len(paragraphs) = 3
    /\ Len(final_cleaned_paragraphs) = 2
    /\ final_cleaned_paragraphs[1] # final_cleaned_paragraphs[2]
    /\ final_cleaned_paragraphs = <<paragraphs[1], paragraphs[3]>>

(* C4: the output is, in order, precisely the paragraphs before the first   *)
(* header whose trimmed length exceeds 20 and which are not digits with an  *)
(* optional trailing period, whether or not a header was found (for         *)
(* paragraphs cleaned as extract_from_xml cleans them).                     *)
C4_CleanupExact ==
    fpc = "done" =>
        final_cleaned_paragraphs
            = SelectSeq(BeforeFirstHeader(paragraphs), SurvivesCleanup)

\* Scenario B: only "Body text about PLGA." is left
C4_Witness ==
    /\ fpc = "done"
    /\ paragraphs = ScenarioB
    /\ final_cleaned_paragraphs = << <<"B","o","d","y"," ","t","e","x","t"," ","a","b","o","u","t"," ","P","L","G","A",".">> (* Body text about PLGA. *) >>

\* a 20-character paragraph and a long digit-only one are dropped with no
\* header in the input
C4_WitnessBoundary ==
    /\ fpc = "done"
    /\ paragraphs = << <<"E","x","a","c","t","l","y"," ","t","w","e","n","t","y"," ","c","h","a","r","s">> (* Exactly twenty chars *), <<"1","2","3","4","5","6","7","8","9","0","1","2","3","4","5","6","7","8","9","0","1",".">> (* 123456789012345678901. *),
                       <<"B","o","d","y"," ","t","e","x","t"," ","a","b","o","u","t"," ","P","L","G","A",".">> (* Body text about PLGA. *) >>
    /\ final_cleaned_paragraphs = << <<"B","o","d","y"," ","t","e","x","t"," ","a","b","o","u","t"," ","P","L","G","A",".">> (* Body text about PLGA. *) >>

(* C5 as stated: with no header in the input the output equals the input.  *)
C5_Original ==
    (fpc = "done" /\ FirstHeader(paragraphs) = Len(paragraphs) + 1) =>
        final_cleaned_paragraphs = paragraphs

(* C5, amended: with no header in the input the ancillary scan removes      *)
(* nothing: the output is the input less the paragraphs the final cleanup   *)
(* drops (length <= 20, or digits only).                                    *)
C5_NoHeaderOnlyCleanup ==
    (fpc = "done" /\ FirstHeader(paragraphs) = Len(paragraphs) + 1) =>
        /\ final_cleaned_paragraphs = SelectSeq(paragraphs, SurvivesCleanup)
        /\ (\A i \in 1..Len(paragraphs) : SurvivesCleanup(paragraphs[i]))
              => final_cleaned_paragraphs = paragraphs

\* no header, three paragraphs, all of them kept
C5_Witness ==
    /\ fpc = "done"
    /\ Len(paragraphs) = 3
    /\ FirstHeader(paragraphs) = 4
    /\ final_cleaned_paragraphs = paragraphs

---------------------------------------------------------------------------
(* What the specification says of extract_from_xml *)

\* the body section is titled as an ancillary section
IsAncillarySection(sec) == sec.title # <<>> /\ IsHeaderParagraph(sec.title[1])

\* the cleaned text of every paragraph of a section
AllSectionParagraphs(sec) ==
    CleanAll(Flatten([k \in 1..Len(sec.ps) |-> sec.ps[k].texts]))

\* the paragraph texts found in ancillary sections and nowhere else
AncillaryOnlyTexts(d) ==
    UNION { Range(AllSectionParagraphs(d.sections[i])) :
              i \in { k \in 1..Len(d.sections) : IsAncillarySection(d.sections[k]) } }
    \ UNION { Range(AllSectionParagraphs(d.sections[i])) :
              i \in { k \in 1..Len(d.sections) : ~IsAncillarySection(d.sections[k]) } }

(* C6: body_paragraphs of a returned record holds no text that originates  *)
(* in an ancillary section of the document, such as the paragraphs of a     *)
(* body section titled "Acknowledgements" or "References".                  *)
C6_Original ==
    (pc = "returned" /\ result # None) =>
        \A k \in 1..Len(result[1].body_paragraphs) :
            result[1].body_paragraphs[k] \notin AncillaryOnlyTexts(doc)

\* the direct paragraphs of a section, those under a reference list left out
DirectParagraphs(sec) ==
    LET direct(par) == ~par.in_ref_list
        ps == SelectSeq(sec.ps, direct)
    IN CleanAll(Flatten([k \in 1..Len(ps) |-> ps[k].texts]))

ExpectedSection(sec) ==
    [ title |-> IF sec.title = <<>> THEN <<"U","n","t","i","t","l","e","d"," ","S","e","c","t","i","o","n">> (* Untitled Section *) ELSE Strip(sec.title[1]),
      paragraphs |-> DirectParagraphs(sec),
      content_flat |-> Join(<<" ">>, DirectParagraphs(sec)) ]

HasParagraphs(section) == section.paragraphs # <<>>

ExpectedSections(d) ==
    SelectSeq([i \in 1..Len(d.sections) |-> ExpectedSection(d.sections[i])],
              HasParagraphs)

(* C7: a returned record includes the ordered list of Sections: one per     *)
(* section element in document order, with its title ("Untitled Section"    *)
(* when missing), its direct paragraphs and their flattened concatenation,  *)
(* sections without paragraphs omitted.                                     *)
C7_Original ==
    (pc = "returned" /\ result # None) =>
        /\ "sections" \in DOMAIN result[1]
        /\ result[1].sections = ExpectedSections(doc)

RecordKeys ==
    {"file_path", "title", "authors", "abstract", "keywords", "body_paragraphs",
     "tables_data"}

\* the call hit malformed markup or an exception
Failed == ~doc.well_formed \/ fault # "none"

(* C8: extraction is all-or-nothing: after malformed markup or an exception *)
(* at any step the call returns None, whatever was extracted before; a      *)
(* record is returned only when every step completed, and it is the whole   *)
(* record.                                                                  *)
C8_AllOrNothing ==
    pc = "returned" =>
        IF Failed
        THEN result = None
        ELSE /\ result = Some(extracted_data)
             /\ DOMAIN extracted_data = RecordKeys
             /\ tw_i > Len(doc.tables)

\* an exception in the table loop, after title, body and one table were
\* extracted: None is returned
C8_Witness ==
    /\ pc = "returned"
    /\ fault = "tables"
    /\ extracted_data.title # None
    /\ extracted_data.body_paragraphs # <<>>
    /\ extracted_data.tables_data # <<>>
    /\ result = None

\* no element bears a title: neither article-title nor any title element
NoTitleElement(d) == d.article_title = <<>> /\ GenericTitles(d) = <<>>

NoAuthorElement(d) == d.contrib_names = <<>> /\ d.author_elems = <<>>

NoAbstractElement(d) == d.abstract_p_texts = <<>> /\ d.abstract_texts = <<>>

NoBodyParagraph(d) == \A i \in 1..Len(d.sections) : d.sections[i].ps = <<>>

(* C9: in a well-formed document the absence of an optional element never   *)
(* fails the extraction: the record is returned with that field at its      *)
(* default (None for title and abstract, the empty list otherwise) and the  *)
(* fields whose elements are present are filled.                            *)
C9_MissingOptional ==
    (pc = "returned" /\ doc.well_formed /\ fault = "none") =>
        /\ result # None
        /\ LET r == result[1] IN
           /\ NoTitleElement(doc) <=> r.title = None
           /\ NoAuthorElement(doc) => r.authors = <<>>
           /\ NoAbstractElement(doc) <=> r.abstract = None
           /\ Len(r.keywords) = Len(doc.keywords)
           /\ NoBodyParagraph(doc) => r.body_paragraphs = <<>>
           /\ doc.tables = <<>> => r.tables_data = <<>>

\* a document without an abstract element: abstract is None, the rest filled
C9_Witness ==
    /\ pc = "returned"
    /\ doc.well_formed
    /\ NoAbstractElement(doc)
    /\ result # None
    /\ result[1].abstract = None
    /\ result[1].title # None
    /\ result[1].authors # <<>>
    /\ result[1].keywords # <<>>
    /\ result[1].body_paragraphs # <<>>
    /\ result[1].tables_data # <<>>

\* the lines of a text, each ended by a line break
RECURSIVE SplitLines(_)
SplitLines(t) ==
    IF t = <<>> THEN <<>>
    ELSE LET k == IF \E i \in 1..Len(t) : t[i] = "\n"
                  THEN CHOOSE i \in 1..Len(t) :
                          /\ t[i] = "\n"
                          /\ \A j \in 1..(i - 1) : t[j] # "\n"
                  ELSE Len(t) + 1
         IN <<SubSeq(t, 1, k - 1)>> \o SplitLines(SubSeq(t, k + 1, Len(t)))

\* the table-wrap has a row
HasRows(tw) == tw.thead # <<>> \/ tw.tbody # <<>>

TablesWithRows(d) == SelectSeq(d.tables, HasRows)

(* C10: for a table with one header row and N body rows,                    *)
(* text_representation is exactly N+2 lines (header, separator, one line    *)
(* per body row in order), and a row's line holds its cell values           *)
(* verbatim, in column order, delimiter-bounded.                            *)
C10_Original ==
    (pc = "returned" /\ result # None) =>
        LET tws == TablesWithRows(doc)
            recs == result[1].tables_data
        IN /\ Len(recs) = Len(tws)
           /\ \A i \in 1..Len(tws) :
                Len(tws[i].thead) = 1 =>
                    LET tlines == SplitLines(recs[i].text_representation)
                        N == Len(tws[i].tbody)
                    IN /\ Len(tlines) = N + 2
                       /\ tlines[1] = <<"|"," ">> \o Join(<<" ","|"," ">> (*  |  *), recs[i].data_rows[1]) \o <<" ","|">>
                       /\ \A k \in 1..N :
                            tlines[k + 2] =
                                <<"|"," ">> \o Join(<<" ","|"," ">> (*  |  *), recs[i].data_rows[k + 1]) \o <<" ","|">>

\* the lengths of the maximal runs of "-" in a line, left to right
RECURSIVE DashRuns(_, _)
DashRuns(line, run) ==
    IF line = <<>> THEN (IF run > 0 THEN <<run>> ELSE <<>>)
    ELSE IF Head(line) = "-" THEN DashRuns(Tail(line), run + 1)
    ELSE (IF run > 0 THEN <<run>> ELSE <<>>) \o DashRuns(Tail(line), 0)

\* the separator line of a record: the line after the header line
SeparatorOf(rec) ==
    LET header == <<"|"," ">> \o Join(<<" ","|"," ">> (*  |  *), rec.data_rows[1]) \o <<" ","|","\n">> (*  |\n *)
    IN SplitLines(SubSeq(rec.text_representation, Len(header) + 1,
                         Len(rec.text_representation)))[1]

\* the dashes of column i, the padding dash that the delimiters put on each
\* side of every column not counted
ColumnDashes(rec, i) == DashRuns(SeparatorOf(rec), 0)[i] - 2

Max(a, b) == IF a > b THEN a ELSE b

(* C11 as stated: the run of dashes of each column of the separator line    *)
(* has length max(3, length of the column's header cell).                   *)
C11_Original ==
    (pc = "returned" /\ result # None) =>
        \A k \in 1..Len(result[1].tables_data) :
            LET rec == result[1].tables_data[k]
                header == rec.data_rows[1]
            IN header # <<>> =>
                /\ Len(DashRuns(SeparatorOf(rec), 0)) = Len(header)
                /\ \A i \in 1..Len(header) :
                      ColumnDashes(rec, i) = Max(3, Len(header[i]))

(* C11, amended: the run of dashes of each column has exactly the length of *)
(* the column's header cell, with no minimum of 3 (none for an empty header *)
(* cell, one for a one-character cell), between the one padding dash that   *)
(* the delimiters put on each side; the separator line holds nothing else.  *)
C11_DashesAreHeaderLength ==
    (pc = "returned" /\ result # None) =>
        \A k \in 1..Len(result[1].tables_data) :
            LET rec == result[1].tables_data[k]
                header == rec.data_rows[1]
            IN /\ Range(SeparatorOf(rec)) \subseteq {"|", "-"}
               /\ header # <<>> =>
                    /\ Len(DashRuns(SeparatorOf(rec), 0)) = Len(header)
                    /\ \A i \in 1..Len(header) :
                          ColumnDashes(rec, i) = Len(header[i])

\* a header row with a one-character cell and an empty cell
C11_Witness ==
    /\ pc = "returned"
    /\ result # None
    /\ result[1].tables_data # <<>>
    /\ result[1].tables_data[1].data_rows[1] = << <<"N">>, <<>> >>
    /\ SeparatorOf(result[1].tables_data[1]) = <<"|","-","-","-","|","-","-","|">> (* |---|--| *)

(* C12: tables_data holds exactly one record per table-wrap from which at   *)
(* least one row was collected, in document order, and none for a           *)
(* table-wrap without rows; an empty table does not fail the document.      *)
C12_OneRecordPerTableWithRows ==
    pc = "returned" =>
        /\ result # None
        /\ LET tws == TablesWithRows(doc)
               recs == result[1].tables_data
           IN /\ Len(recs) = Len(tws)
              /\ \A i \in 1..Len(tws) :
                    /\ recs[i].id = IF tws[i].id = <<>> THEN <<"N","/","A">> (* N/A *) ELSE tws[i].id[1]
                    /\ Len(recs[i].data_rows) = Len(tws[i].thead) + Len(tws[i].tbody)
                    /\ recs[i].data_rows # <<>>

\* an empty table-wrap followed by one with a row: one record, the second's
C12_Witness ==
    /\ pc = "returned"
    /\ Len(doc.tables) = 2
    /\ ~HasRows(doc.tables[1])
    /\ HasRows(doc.tables[2])
    /\ Len(result[1].tables_data) = 1
    /\ result[1].tables_data[1].caption = <<"T","a","b","l","e"," ","2",".">> (* Table 2. *)


---------------------------------------------------------------------------
(* What the specification says of the paragraph segmenter                  *)

IsBlankLine(l) == \A i \in 1..Len(l) : IsSpace(l[i])

\* the paragraph made of the lines at the positions g: each trimmed, joined
\* by one space
GroupText(g) == Join(<<" ">>, [k \in 1..Len(g) |-> Strip(lines[g[k]])])

\* every paragraph, and the accumulator, is the lines it was built from
BuiltFromLines ==
    /\ Len(pdf_paragraphs) = Len(paragraph_idx)
    /\ \A j \in 1..Len(pdf_paragraphs) :
            pdf_paragraphs[j] = GroupText(paragraph_idx[j])
    /\ Len(current_paragraph_lines) = Len(current_idx)
    /\ \A k \in 1..Len(current_idx) :
            current_paragraph_lines[k] = Strip(lines[current_idx[k]])

\* no blank line lies between two lines of g
NoBlankInside(g) ==
    \A a, b \in 1..Len(g) :
        a < b => \A k \in g[a]..g[b] : ~IsBlankLine(lines[k])

(* C13: a blank line always ends the current paragraph, whatever the        *)
(* lookahead says: no paragraph, finished or accumulating, holds two lines  *)
(* with a blank line between them; right after a blank line the accumulator *)
(* is empty; and no paragraph is empty, so a blank line met with an empty   *)
(* accumulator emitted nothing.                                             *)
C13_BlankLineFlushes ==
    /\ BuiltFromLines
    /\ \A j \in 1..Len(paragraph_idx) : NoBlankInside(paragraph_idx[j])
    /\ NoBlankInside(current_idx)
    /\ \A j \in 1..Len(paragraph_idx) :
            paragraph_idx[j] # <<>> /\ pdf_paragraphs[j] # <<>>
    /\ (spc = "loop" /\ line_i > 1 /\ IsBlankLine(lines[line_i - 1])) =>
            current_paragraph_lines = <<>>

\* the lookahead alone would have joined lines 1 and 3; the blank line
\* between them separates them
C13_Witness ==
    /\ spc = "done"
    /\ lines = << <<"N","i","n","e"," ","c","h","a","r">> (* Nine char *), <<" ">>, <<"c","o","n","t","i","n","u","e","s"," ","t","h","e"," ","t","h","o","u","g","h","t","!">> (* continues the thought! *) >>
    /\ paragraph_idx = << <<1>>, <<3>> >>

EndsWithTerminator(l) ==
    LET t == Strip(l) IN t # <<>> /\ t[Len(t)] \in {".", "?", "!"}

StartsLikeNew(l) ==
    LET t == MapLower(Strip(l))
    IN /\ Strip(l) # <<>>
       /\ \/ Strip(l)[1] \in Range(UpperChars)
          \/ IsDigit(Strip(l)[1])
          \/ (Len(t) >= 4 /\ SubSeq(t, 1, 4) = <<"f","i","g",".">> (* fig. *))
          \/ (Len(t) >= 5 /\ SubSeq(t, 1, 5) = <<"t","a","b","l","e">> (* table *))

\* lines i and i+1 are neighbours in one paragraph
SameParagraph(i) ==
    \E j \in 1..Len(paragraph_idx) :
        \E k \in 1..(Len(paragraph_idx[j]) - 1) :
            paragraph_idx[j][k] = i /\ paragraph_idx[j][k + 1] = i + 1

InSomeParagraph(i) ==
    \E j \in 1..Len(paragraph_idx) :
        \E k \in 1..Len(paragraph_idx[j]) : paragraph_idx[j][k] = i

(* C14: two consecutive non-blank lines are in different paragraphs iff the *)
(* first ends in '.', '?' or '!' and the second starts with an upper-case   *)
(* letter, a digit, "fig." or "table" (any case); otherwise the second is   *)
(* joined to the first by one space; the last line is not flushed by the    *)
(* lookahead but once, at the end.                                          *)
C14_LookaheadRule ==
    /\ spc = "done" =>
        /\ BuiltFromLines
        /\ \A i \in 1..(Len(lines) - 1) :
            (~IsBlankLine(lines[i]) /\ ~IsBlankLine(lines[i + 1])) =>
                /\ InSomeParagraph(i) /\ InSomeParagraph(i + 1)
                /\ SameParagraph(i) <=>
                        ~(EndsWithTerminator(lines[i]) /\ StartsLikeNew(lines[i + 1]))
    /\ (spc = "loop" /\ line_i > Len(lines) /\ ~IsBlankLine(lines[Len(lines)])) =>
            /\ current_idx # <<>>
            /\ current_idx[Len(current_idx)] = Len(lines)

\* one break by the lookahead ("fig." after a period), one continuation (a
\* lower-case start after '?')
C14_Witness ==
    /\ spc = "done"
    /\ lines = << <<"T","e","n"," ","c","h","a","r","s",".">> (* Ten chars. *), <<"f","i","g","."," ","2"," ","i","s"," ","h","e","r","e","?">> (* fig. 2 is here? *), <<"c","o","n","t","i","n","u","e","s"," ","t","h","e"," ","t","h","o","u","g","h","t","!">> (* continues the thought! *) >>
    /\ pdf_paragraphs = << <<"T","e","n"," ","c","h","a","r","s",".">> (* Ten chars. *), <<"f","i","g","."," ","2"," ","i","s"," ","h","e","r","e","?"," ","c","o","n","t","i","n","u","e","s"," ","t","h","e"," ","t","h","o","u","g","h","t","!">> (* fig. 2 is here? continues the thought! *) >>

(* C15, as stated: Scenario A yields exactly two paragraphs, the two lines  *)
(* before the blank line forming one paragraph.                             *)
C15_Original ==
    (spc = "done" /\ text = ScenarioA) =>
        cleaned_paragraphs = << <<"I","n","t","r","o"," ","s","e","n","t","e","n","c","e"," ","h","e","r","e","."," ","N","e","x","t"," ","P","a","r","a"," ","s","t","a","r","t","s",".">> (* Intro sentence here. Next Para starts. *),
                                <<"F","i","n","a","l"," ","p","a","r","a","g","r","a","p","h"," ","t","e","x","t",".">> (* Final paragraph text. *) >>

(* C15, amended: Scenario A yields exactly three paragraphs: the lookahead  *)
(* breaks after the first line, the blank line after the second.            *)
C15_ThreeParagraphs ==
    (spc = "done" /\ text = ScenarioA) =>
        cleaned_paragraphs = << <<"I","n","t","r","o"," ","s","e","n","t","e","n","c","e"," ","h","e","r","e",".">> (* Intro sentence here. *), <<"N","e","x","t"," ","P","a","r","a"," ","s","t","a","r","t","s",".">> (* Next Para starts. *),
                                <<"F","i","n","a","l"," ","p","a","r","a","g","r","a","p","h"," ","t","e","x","t",".">> (* Final paragraph text. *) >>

C15_Witness ==
    /\ spc = "done"
    /\ text = ScenarioA
    /\ Len(cleaned_paragraphs) = 3
    /\ paragraph_idx = << <<1>>, <<2>>, <<4>> >>

(* C16, as stated: every returned paragraph is non-empty, at least 10       *)
(* characters long when trimmed, not a pure integer, without leading or     *)
(* trailing whitespace and without a run of two whitespace characters.      *)
C16_Original ==
    spc = "done" =>
        \A k \in 1..Len(cleaned_paragraphs) :
            LET p == cleaned_paragraphs[k]
            IN /\ p # <<>>
               /\ Len(Strip(p)) >= 10
               /\ \E i \in 1..Len(p) : ~IsDigit(p[i])
               /\ ~IsSpace(p[1]) /\ ~IsSpace(p[Len(p)])
               /\ \A i \in 1..(Len(p) - 1) : ~(IsSpace(p[i]) /\ IsSpace(p[i + 1]))

\* the words of a text: its maximal runs of non-blank characters
RECURSIVE Words(_)
Words(s) ==
    LET t == LStrip(s)
    IN IF t = <<>> THEN <<>>
       ELSE LET n == IF \E i \in 1..Len(t) : IsSpace(t[i])
                     THEN (CHOOSE i \in 1..Len(t) :
                              /\ IsSpace(t[i])
                              /\ \A j \in 1..(i - 1) : ~IsSpace(t[j])) - 1
                     ELSE Len(t)
            IN <<SubSeq(t, 1, n)>> \o Words(SubSeq(t, n + 1, Len(t)))

\* the positions of the non-blank lines, increasing
NonBlankPositions ==
    LET F[i \in 0..Len(lines)] ==
            IF i = 0 THEN <<>>
            ELSE IF IsBlankLine(lines[i]) THEN F[i - 1] ELSE Append(F[i - 1], i)
    IN F[Len(lines)]

\* the words of the lines at the positions g, in order
WordsOfLines(g) == Flatten([k \in 1..Len(g) |-> Words(lines[g[k]])])

\* a segmented paragraph the post-processing drops: shorter than 10
\* characters, or an integer
DroppedGroup(g) ==
    \/ Len(GroupText(g)) < 10
    \/ \A i \in 1..Len(GroupText(g)) : IsDigit(GroupText(g)[i])

KeptGroup(g) == ~DroppedGroup(g)

(* C17: words are neither lost nor invented. Every non-blank line is in     *)
(* exactly one segmented paragraph, whole and in input order; the returned  *)
(* paragraphs are, in order, the segmented paragraphs that are not dropped  *)
(* as short or numeric, and the words of each are exactly the words of its  *)
(* lines in order.                                                          *)
C17_WordsConserved ==
    spc = "done" =>
        LET kept == SelectSeq(paragraph_idx, KeptGroup)
        IN /\ Flatten(paragraph_idx) = NonBlankPositions
           /\ Len(cleaned_paragraphs) = Len(kept)
           /\ \A k \in 1..Len(kept) :
                Words(cleaned_paragraphs[k]) = WordsOfLines(kept[k])
           /\ Flatten([k \in 1..Len(cleaned_paragraphs) |-> Words(cleaned_paragraphs[k])])
                = WordsOfLines(Flatten(kept))

\* a short paragraph is dropped with its words, a kept one holds the words
\* of its line
C17_Witness ==
    /\ spc = "done"
    /\ lines = << <<"N","i","n","e"," ","c","h","a","r">> (* Nine char *), <<>>, <<"w","i","d","e"," ","\t"," "," ","g","a","p">> (* wide \t  gap *) >>
    /\ cleaned_paragraphs = << <<"w","i","d","e"," ","g","a","p">> (* wide gap *) >>


---------------------------------------------------------------------------
(* What the specification says of concurrent extraction                    *)

\* the record of a document extracted alone and whole
WholeRecord(d) ==
    [ InitialRecord(d) EXCEPT
        !.title = extract_title(d),
        !.authors = extract_authors(d),
        !.abstract = extract_abstract(d),
        !.keywords = extract_keywords(d),
        !.body_paragraphs = extract_body_paragraphs(d),
        !.tables_data =
            LET tws == TablesWithRows(d)
            IN [i \in 1..Len(tws) |-> table_record(tws[i])] ]

\* the result of extracting a document alone: a failure when the markup is
\* malformed or a step raises, its whole record otherwise
ExtractedAlone(d, f) ==
    IF ~d.well_formed \/ f # "none" THEN None ELSE Some(WholeRecord(d))

\* the step just taken is the step of one call: it leaves the frame and
\* the dict of every other call as they were
StepOfOneCall ==
    \E w \in Workers :
        \A v \in Workers \ {w} : calls'[v] = calls[v] /\ heap'[v] = heap[v]

\* every call that has returned has the result of its document alone
ResultsAsAlone ==
    \A w \in Workers :
        calls[w].pc = "returned" =>
            calls[w].result = ExtractedAlone(calls[w].doc, calls[w].fault)

(* C18: whatever the interleaving of the workers, the result of each call   *)
(* (record or failure) is the result of extracting its document alone, and  *)
(* no step of a call, a failure included, changes the position, the         *)
(* result or the dict of another call, so no call can stop or alter another. *)
C18_CallsIndependent == []ResultsAsAlone /\ [][StepOfOneCall]_vars

\* worker 1 has failed on a malformed document, worker 2 has returned its
\* record with the table
C18_Witness ==
    /\ calls[1].pc = "returned"
    /\ ~calls[1].doc.well_formed
    /\ calls[1].result = None
    /\ calls[2].pc = "returned"
    /\ calls[2].result # None
    /\ Len(calls[2].result[1].tables_data) = 1


---------------------------------------------------------------------------
(* What the specification says of the filter's flag                        *)

\* inside the loop the flag is true exactly when a header has been processed
FlagMeansHeaderSeen ==
    fpc = "loop" =>
        /\ idx = 1 => ~in_ancillary_section
        /\ in_ancillary_section <=>
                \E j \in 1..(idx - 1) : IsHeaderParagraph(paragraphs[j])

\* a step of the pass: the flag turns true on a header and only then, stays
\* true once true, and nothing is appended while it is true
FlagStep ==
    fpc = "loop" =>
        /\ idx' = idx + 1 =>
                in_ancillary_section' =
                    (in_ancillary_section \/ IsHeaderParagraph(paragraphs[idx]))
        /\ in_ancillary_section =>
                /\ in_ancillary_section'
                /\ processed_paragraphs' = processed_paragraphs

(* C19: during one pass the flag starts false, becomes true exactly when a  *)
(* header paragraph is processed, is never reset to false afterwards, and   *)
(* while it is true no paragraph is appended to the kept list.              *)
C19_FlagNeverResets == []FlagMeansHeaderSeen /\ [][FlagStep]_vars

\* a header first, then ordinary body text, processed and not kept
C19_Witness ==
    /\ fpc = "loop"
    /\ idx = 3
    /\ paragraphs[1] = <<"R","e","f","e","r","e","n","c","e","s">> (* References *)
    /\ paragraphs[2] = <<"B","o","d","y"," ","t","e","x","t"," ","a","b","o","u","t"," ","P","L","G","A",".">> (* Body text about PLGA. *)
    /\ in_ancillary_section
    /\ processed_paragraphs = <<>>


---------------------------------------------------------------------------
(* What the specification says of reference-list paragraphs                *)

\* the cleaned texts of the paragraphs of the body with in_ref_list = b
TextsOfParagraphs(d, b) ==
    UNION { UNION { Range(CleanAll(d.sections[i].ps[j].texts)) :
                      j \in { k \in 1..Len(d.sections[i].ps) :
                                d.sections[i].ps[k].in_ref_list = b } } :
              i \in 1..Len(d.sections) }

\* the texts found in paragraphs under a reference list and in no other
RefListOnlyTexts(d) == TextsOfParagraphs(d, TRUE) \ TextsOfParagraphs(d, FALSE)

(* C20: no paragraph with a reference-list ancestor contributes text to     *)
(* body_paragraphs of a returned record, for every document, those whose    *)
(* body has paragraphs only inside a reference list included.               *)
C20_Original ==
    (pc = "returned" /\ result # None) =>
        \A k \in 1..Len(result[1].body_paragraphs) :
            result[1].body_paragraphs[k] \notin RefListOnlyTexts(doc)


---------------------------------------------------------------------------
(* What the specification says of ragged tables                            *)

\* how many times the character c occurs in a line
Count(line, c) == Cardinality({ i \in 1..Len(line) : line[i] = c })

\* the trimmed text nodes of the cells of a tr
CellsOf(tr) ==
    LET nodes == Flatten(tr) IN [i \in 1..Len(nodes) |-> Strip(nodes[i])]

\* the rows of a table-wrap as collected: header rows, then body rows
CollectedRows(tw) ==
    [i \in 1..Len(tw.thead) |-> CellsOf(tw.thead[i])]
        \o [i \in 1..Len(tw.tbody) |-> CellsOf(tw.tbody[i])]

(* C21: ragged tables are serialized as-is. data_rows is every collected    *)
(* row unchanged, header rows before body rows; the line of each row after  *)
(* the first holds exactly the row's own k cells between k+1 delimiters,    *)
(* whatever the number of columns of the header; the separator line has one *)
(* dash run per header cell and depends on no other row.                    *)
C21_Original ==
    (pc = "returned" /\ result # None) =>
        LET tws == TablesWithRows(doc)
            recs == result[1].tables_data
        IN /\ Len(recs) = Len(tws)
           /\ \A t \in 1..Len(tws) :
                LET rows == recs[t].data_rows
                    tlines == SplitLines(recs[t].text_representation)
                IN /\ rows = CollectedRows(tws[t])
                   /\ Len(tlines) = Len(rows) + 1
                   /\ Range(tlines[2]) \subseteq {"|", "-"}
                   /\ rows[1] # <<>> =>
                        Len(DashRuns(tlines[2], 0)) = Len(rows[1])
                   /\ \A r \in 2..Len(rows) :
                        /\ tlines[r + 1] = <<"|"," ">> \o Join(<<" ","|"," ">> (*  |  *), rows[r]) \o <<" ","|">>
                        /\ Count(tlines[r + 1], "|") = Len(rows[r]) + 1


---------------------------------------------------------------------------
(* What is said of the model call                                          *)

\* the text the JSON is read from: the inside of the fence when there is
\* one, the whole response otherwise, trimmed
JsonSource(t) ==
    IF json_match(t) # None THEN Strip(json_match(t)[1]) ELSE Strip(t)

\* the value the call is to return: the parsed JSON when the key is set, the
\* model answers with a candidate whose text parses, None otherwise
ExpectedReturn ==
    IF /\ api_key # None
       /\ api_key # Some(<<>>)
       /\ response.raises = "none"
       /\ response.candidates # <<>>
       /\ candidate_text(response.candidates[1]) # <<>>
       /\ json_loads(JsonSource(candidate_text(response.candidates[1]))).ok
    THEN json_loads(JsonSource(candidate_text(response.candidates[1]))).val
    ELSE PyNone

(* C22: call_llm_for_extraction never raises to its caller: it returns the  *)
(* parsed JSON value when the response text parses as JSON (read from       *)
(* inside the fence when there is one, from the whole trimmed response      *)
(* otherwise) and None in every other case, a missing GOOGLE_API_KEY among  *)
(* them.                                                                    *)
C22_Original ==
    /\ lpc # "raised"
    /\ lpc = "returned" => llm_result = ExpectedReturn

====
